---- MODULE Spec2Model ----
(***************************************************************************)
(* DSS - DNA sequence similarity.  A model of the plugin registry, the     *)
(* AnalysisService and the sequence processors (DPTM, CGR, TM, PTM,        *)
(* Template Matching, Chaos Game Frequency) of src/src.                    *)
(*                                                                         *)
(* A DNA string is a sequence of one-character strings.  A configuration   *)
(* (MethodConfig.parameters) is a function from the parameter names that   *)
(* are present to their values.  Distances are kept as SQUARED Euclidean   *)
(* distances: the descriptors are integer vectors, so the square is exact, *)
(* and the square root the library takes is strictly monotone and maps 0   *)
(* to 0, so equality, symmetry, zero and order of distances are unchanged. *)
(***************************************************************************)
EXTENDS Integers, Sequences, FiniteSets, TLC

VARIABLES
    processors,      \* PluginRegistry._processors: method name -> processor class
    dict_mapping,    \* DPTMProcessor._dict_mapping of the registered instance
    n_calls,         \* number of analyze_sequences calls so far
    svc_pc,          \* position inside AnalysisService.analyze_sequences
    svc_method,      \* its argument method_name
    svc_config,      \* its argument config.parameters
    svc_nseq,        \* len(sequences) of its argument sequences
    svc_sequences,   \* the elements of sequences read so far
    svc_processor,   \* its local `processor` (None until looked up)
    svc_valid,       \* what processor.validate_config(config) returned
    svc_outcome,     \* how the last analyze_sequences call ended
    current_result,  \* AnalysisService._current_result: the call that made it
    run_pc,          \* position inside processor.process_sequences
    run_idx,         \* index of the sequence the main loop is at (1-based)
    sequence_names,  \* its local sequence_names
    descriptors,     \* its local descriptor rows, one per processed sequence
    win_i,           \* DPTM: window start i of _calculate_dynamic_features
    part_j,          \* DPTM: sub-part offset j
    dec_num,         \* DPTM: dec_num of the current window
    dec_pos_count,   \* DPTM: dec_pos_count of the current window
    feature,         \* DPTM: feature numbers of the current sequence
    last_match,      \* DPTM: the last sub-part classification made (<<>> if none)
    run_seen,        \* DPTM: pairs classified so far in this run -> code returned
    distances,       \* the distance matrix once computed (<<>> before)
    tree_built,      \* the constructor method whose tree is in the result
    dist_matrix,     \* the rows handed to DistanceMatrix (<<>> before)
    run_error,       \* the exception process_sequences raised (None if none)
    fn_call,         \* the last direct call of a library function (<<>> if none)
    loaders,         \* PluginRegistry._loaders: the class of each loader
    visualizers,     \* PluginRegistry._visualizers: the class of each visualizer
    cb_status,       \* progress callback: the last set_status of this call
    cb_progress      \* progress callback: the update_progress values of this call

vars == <<processors, dict_mapping, n_calls, svc_pc, svc_method,
          svc_config, svc_nseq, svc_sequences, svc_processor, svc_valid, svc_outcome,
          current_result, run_pc, run_idx, sequence_names, descriptors, win_i,
          part_j, dec_num, dec_pos_count, feature, last_match, run_seen,
          distances, tree_built, dist_matrix, run_error, fn_call, loaders,
          visualizers, cb_status, cb_progress>>

None == "None"

\* None for a value that is a sequence or a matrix; no call has the id 0
Nothing == <<>>
NoCall == 0

(***************************************************************************)
(* Bounds of the model.                                                    *)
(***************************************************************************)
MaxBatch == 3          \* sequences per analyze_sequences call: 0..MaxBatch
DPTMMaxBatch == 2      \* the same for the calls of the DPTM specification
MaxCalls == 2          \* analyze_sequences calls per behaviour
EnginesMaxCalls == 1   \* the same for the engines specification
PartWiseMaxBatch == 2  \* the same for the calls of the part-wise specification
MaxBaseLength == 4     \* base_length of the direct classifier calls: 1..MaxBaseLength
MaxTemplateK == 4      \* k of the direct template generator calls: 0..MaxTemplateK
MaxPartLength == 2     \* part_length of the direct match calls: 1..MaxPartLength
MaxIdealLength == 2    \* ideal sequences of the direct TM score calls: 1..MaxIdealLength
MaxScored == 3         \* sequences of the direct TM score calls: 0..MaxScored bases
KeysMaxBatch == 1      \* sequences per call of the cache-key specification
MaxLoads == 2          \* load_all_plugins calls per behaviour
MaxPartition == 2      \* partition of the direct histogram calls: 1..MaxPartition
MaxCellK == 3          \* k-mer length of the direct CGR calls: 1..MaxCellK
MaxKmer == 2           \* CGR kmer_length of the valid configurations: 1..MaxKmer

(***************************************************************************)
(* Generic helpers.                                                        *)
(***************************************************************************)
Min(a, b) == IF a <= b THEN a ELSE b
Max(a, b) == IF a >= b THEN a ELSE b

RECURSIVE Pow(_, _)
Pow(b, e) == IF e <= 0 THEN 1 ELSE b * Pow(b, e - 1)

RECURSIVE SumSeq(_)
SumSeq(s) == IF s = <<>> THEN 0 ELSE Head(s) + SumSeq(Tail(s))

\* Python slice s[a:b] for 0 <= a, on a 1-based TLA+ sequence.
Slice(s, a, b) ==
    LET lo == Min(a, Len(s))
        hi == Min(Max(b, lo), Len(s))
    IN  [x \in 1..(hi - lo) |-> s[lo + x]]

Zeros(n) == [x \in 1..n |-> 0]

\* int(a / b) for a >= 0, b > 0
IntDiv(a, b) == a \div b

\* str.lower() on the construction-method names the model uses
Lower(x) ==
    CASE x = "NJ" -> "nj"
      [] x = "UPGMA" -> "upgma"
      [] OTHER -> x

Has(params, key) == key \in DOMAIN params

\* dict.get(key, default)
Get(params, key, default) == IF Has(params, key) THEN params[key] ELSE default

(***************************************************************************)
(* numpy.histogram(a, bins) with no range given: `bins` equal-width bins   *)
(* over [min(a), max(a)], the last bin closed; an empty `a` uses (0, 1)    *)
(* and counts nothing; min = max uses (min - 0.5, max + 0.5).  The values  *)
(* are integers, so the bin index is computed exactly.                     *)
(***************************************************************************)
SeqMin(s) == CHOOSE v \in {s[x] : x \in DOMAIN s} : \A y \in DOMAIN s : v <= s[y]
SeqMax(s) == CHOOSE v \in {s[x] : x \in DOMAIN s} : \A y \in DOMAIN s : v >= s[y]

HistBin(v, mn, mx, bins) ==
    IF mn = mx THEN (bins \div 2) + 1
    ELSE Min(((v - mn) * bins) \div (mx - mn), bins - 1) + 1

Histogram(a, bins) ==
    IF a = <<>> THEN Zeros(bins)
    ELSE LET mn == SeqMin(a)
             mx == SeqMax(a)
         IN  [b \in 1..bins |->
                 Cardinality({x \in DOMAIN a : HistBin(a[x], mn, mx, bins) = b})]

(***************************************************************************)
(* sklearn pairwise_distances(X, metric='euclidean') on the rows of X,     *)
(* squared.  sklearn sets the diagonal to exactly 0 when X is compared     *)
(* with itself.                                                            *)
(***************************************************************************)
SqEuclidean(u, v) == SumSeq([x \in 1..Len(u) |-> (u[x] - v[x]) * (u[x] - v[x])])

\* a mutant: only the upper triangle is filled
pairwise_distances_upper(X) ==
    [a \in 1..Len(X) |-> [b \in 1..Len(X) |->
        IF a < b THEN SqEuclidean(X[a], X[b]) ELSE 0]]

pairwise_distances(X) ==
    [a \in 1..Len(X) |-> [b \in 1..Len(X) |->
        IF a = b THEN 0 ELSE SqEuclidean(X[a], X[b])]]

(***************************************************************************)
(* The lower-triangular rows handed to Bio.Phylo's DistanceMatrix.         *)
(***************************************************************************)
\* del row[a:b] of a Python list (0-based a, b; both clamped to the length)
DelSlice(row, a, b) ==
    LET lo == Min(a, Len(row))
        hi == Min(b, Len(row))
    IN  IF lo >= hi THEN row
        ELSE SubSeq(row, 1, lo) \o SubSeq(row, hi + 1, Len(row))

\* a mutant: the diagonal entry is deleted with the upper triangle
to_lower_triangular_del_from_i(matrix) ==
    [x \in 1..Len(matrix) |-> DelSlice(matrix[x], x - 1, Len(matrix))]

\* DPTM: distances_list = distances.tolist() is a new list of lists;
\* _to_lower_triangular_del deletes matrix[i][i + 1:n] in every row i of it
to_lower_triangular_del(matrix) ==
    [x \in 1..Len(matrix) |-> DelSlice(matrix[x], x, Len(matrix))]

\* CGR, TM, PTM: dist_matrix.append(distances[i, :i+1].tolist()) for every i
lower_triangular_rows(dists) ==
    [x \in 1..Len(dists) |-> SubSeq(dists[x], 1, Min(x, Len(dists[x])))]

(***************************************************************************)
(* The processor classes and the method name each registers under.         *)
(***************************************************************************)
DPTM == "DPTMProcessor"
CGR == "CGRProcessor"
TM == "TMProcessor"
PTM == "PTMProcessor"
PTMV2 == "PartWiseTemplateMatchingV2Processor"
TMPL == "TemplateMatchingProcessor"
CGF == "ChaosGameFrequencyProcessor"
PTMV1 == "PartWiseTemplateMatchingProcessor"

get_method_name(p) ==
    CASE p = DPTM -> "Dynamic Part-wise Template Matching"
      [] p = CGR  -> "Chaos Game Frequency Representation"
      [] p = TM   -> "Template Matching"
      [] p = PTM  -> "Part-wise Template Matching"
      [] p = PTMV2 -> "Part-wise Template Matching V2"
      [] p = TMPL -> "Template Matching"
      [] p = CGF  -> "Chaos Game Frequency"
      [] p = PTMV1 -> "Part-wise Template Matching"

(***************************************************************************)
(* Bio.Seq complement, on the bases the model uses.                        *)
(***************************************************************************)
SeqComplement(base) ==
    CASE base = "A" -> "T"
      [] base = "T" -> "A"
      [] base = "C" -> "G"
      [] base = "G" -> "C"
      [] OTHER -> base

(***************************************************************************)
(* DPTMProcessor                                                           *)
(***************************************************************************)
\* __init__: the cache starts with the key "aa"
DPTMInitCache == [key \in {<<"a", "a">>} |-> 0]

DPTM_validate_config(params) ==
    /\ Has(params, "k_length")
    /\ Has(params, "threshold_percent")
    /\ Has(params, "part_length")
    /\ 1 <= params["k_length"] /\ params["k_length"] <= 10
    /\ 0 <= params["threshold_percent"] /\ params["threshold_percent"] <= 100
    /\ 1 <= params["part_length"] /\ params["part_length"] <= 50

\* _generate_template(k): for i in 0..k, for each base of 'AG', i copies
RECURSIVE DPTM_generate_template_from(_, _)
DPTM_generate_template_from(i, k) ==
    IF i > k THEN <<>>
    ELSE [x \in 1..i |-> "A"] \o [x \in 1..i |-> "G"]
         \o DPTM_generate_template_from(i + 1, k)

\* a mutant: the outer loop is range(k), one round short
DPTM_generate_template_range_k(k) == DPTM_generate_template_from(0, k - 1)

DPTM_generate_template(k) == DPTM_generate_template_from(0, k)

\* feature_size = int(pow(2, (len(ideal_sequence) / k_length) * 2)); the
\* template length k(k+1) is a multiple of k, so the quotient is exact
DPTM_feature_size(k) == Pow(2, (Len(DPTM_generate_template(k)) \div k) * 2)

\* _dynamic_match: dc / cc over min(part_length, len(ideal), len(seq))
\* positions; (dc / part_length) * 100 >= threshold_percent is compared as
\* dc * 100 >= threshold_percent * part_length, which is what the floating
\* point comparison gives for the part lengths of the model (for a part
\* length below 20 and a whole threshold the rounded product is on the same
\* side of the threshold as the exact one).
DynamicMatch(ideal, seq, part_length, threshold_percent) ==
    LET m   == Min(part_length, Min(Len(ideal), Len(seq)))
        dc  == Cardinality({x \in 1..m : ideal[x] = seq[x]})
        cc  == Cardinality({x \in 1..m : ideal[x] = SeqComplement(seq[x])})
        doc == dc + cc
    IN  IF dc * 100 >= threshold_percent * part_length THEN 3
        ELSE IF cc * 100 >= threshold_percent * part_length THEN 2
        ELSE IF doc * 100 >= threshold_percent * part_length THEN 1
        ELSE 0

\* the bits one classification code adds to dec_num
DPTMCodeBits(count, pos) ==
    CASE count = 3 -> Pow(2, pos) + Pow(2, pos + 1)
      [] count = 2 -> Pow(2, pos + 1)
      [] count = 1 -> Pow(2, pos)
      [] OTHER -> 0

(***************************************************************************)
(* CGRProcessor                                                            *)
(***************************************************************************)
UInt16 == 65536

\* validate_config reads params['construction_method'] without checking
\* that it is present: a missing key raises KeyError
CGR_validate_config(params) ==
    IF ~Has(params, "kmer_length") THEN "False"
    ELSE IF ~(1 <= params["kmer_length"] /\ params["kmer_length"] <= 8) THEN "False"
    ELSE IF ~Has(params, "construction_method") THEN "KeyError"
    ELSE IF Lower(params["construction_method"]) \notin {"nj", "upgma"} THEN "False"
    ELSE "True"

\* _cgr_k_mer: the anchor step (i = 0) reads the last base, step i >= 1
\* reads sequence[z-i-1] and shifts by 2**i / 2
CgrAnchor(base) ==
    CASE base = "A" -> <<1, 1>>
      [] base = "G" -> <<2, 1>>
      [] base = "C" -> <<1, 2>>
      [] base = "T" -> <<2, 2>>
      [] OTHER -> <<1, 1>>

CgrShift(base, interval) ==
    CASE base = "G" -> <<interval, 0>>
      [] base = "C" -> <<0, interval>>
      [] base = "T" -> <<interval, interval>>
      [] OTHER -> <<0, 0>>

RECURSIVE CgrWalk(_, _, _)
CgrWalk(kmerSeq, i, l) ==
    IF i >= Len(kmerSeq) THEN l
    ELSE LET sh == CgrShift(kmerSeq[Len(kmerSeq) - i], Pow(2, i) \div 2)
         IN  CgrWalk(kmerSeq, i + 1, <<l[1] + sh[1], l[2] + sh[2]>>)

\* a mutant: the coordinates are returned 1-indexed
cgr_k_mer_one_indexed(kmerSeq) ==
    IF Len(kmerSeq) = 0 THEN <<1, 1>>
    ELSE CgrWalk(kmerSeq, 1, CgrAnchor(kmerSeq[Len(kmerSeq)]))

\* a mutant: the walk over the k-mer is skipped
cgr_k_mer_origin(kmerSeq) == <<0, 0>>

cgr_k_mer(kmerSeq) ==
    IF Len(kmerSeq) = 0 THEN <<0, 0>>
    ELSE LET l == CgrWalk(kmerSeq, 1, CgrAnchor(kmerSeq[Len(kmerSeq)]))
         IN  <<l[1] - 1, l[2] - 1>>

\* _cgr_image_kmer_count followed by flatten(): cell (ly, lx) of the
\* dimension x dimension uint16 image is entry ly * dimension + lx
\* a mutant: no image for a sequence shorter than the k-mer
cgr_image_kmer_count_mut(sequence, kmer) ==
    Zeros(IF Len(sequence) < kmer THEN 0 ELSE Pow(2, kmer) * Pow(2, kmer))

cgr_image_kmer_count(sequence, kmer) ==
    LET dimension == Pow(2, kmer)
        starts    == {i \in 0..(Len(sequence) - kmer) : i + kmer <= Len(sequence)}
        cell(i)   == cgr_k_mer(Slice(sequence, i, i + kmer))
    IN  [e \in 1..(dimension * dimension) |->
            Cardinality({i \in starts :
                /\ cell(i)[1] < dimension /\ cell(i)[2] < dimension
                /\ cell(i)[2] * dimension + cell(i)[1] = e - 1}) % UInt16]

(***************************************************************************)
(* TMProcessor                                                             *)
(***************************************************************************)
TMIdealLength == 12
TMBins == 50

\* validate_config reads params['construction_method'] without checking
\* that it is present: a missing key raises KeyError
TM_validate_config(params) ==
    IF ~Has(params, "partition") THEN "False"
    ELSE IF ~(1 <= params["partition"] /\ params["partition"] <= 10) THEN "False"
    ELSE IF ~Has(params, "construction_method") THEN "KeyError"
    ELSE IF Lower(params["construction_method"]) \notin {"nj", "upgma"} THEN "False"
    ELSE "True"

\* _complement: complements.get(base, 'N')
TM_complement(base) ==
    CASE base = "A" -> "T"
      [] base = "T" -> "A"
      [] base = "C" -> "G"
      [] base = "G" -> "C"
      [] OTHER -> "N"

\* _generate_ideal_sequence(length): bases[i % 4] of 'ATCG'
generate_ideal_sequence(length) ==
    [x \in 1..length |-> <<"A", "T", "C", "G">>[((x - 1) % 4) + 1]]

\* _seq_diff, the template loop: dec_num of window start i (0-based)
TM_dec_num(sequence, ideal_seq, i) ==
    LET w == Len(sequence)
        L == Len(ideal_seq)
        hit(j) == /\ i + L - j <= w
                  /\ \/ sequence[i + L - j] = ideal_seq[L - j]
                     \/ sequence[i + L - j] = TM_complement(ideal_seq[L - j])
    IN  SumSeq([x \in 1..L |-> IF hit(x - 1) THEN Pow(2, x - 1) ELSE 0])

\* _seq_diff, the partition loop from partition p on
RECURSIVE TM_partitions(_, _, _, _)
TM_partitions(dists, partition_size, partition, p) ==
    IF p >= partition THEN <<>>
    ELSE LET start_idx == p * partition_size
             end_idx   == Min((p + 1) * partition_size, Len(dists))
         IN  Histogram(Slice(dists, start_idx, end_idx), TMBins)
             \o TM_partitions(dists, partition_size, partition, p + 1)

\* _seq_diff, the array `distances` after `for i in range(w)`
TM_distances(sequence, ideal_seq) ==
    [x \in 1..Len(sequence) |-> TM_dec_num(sequence, ideal_seq, x - 1)]

seq_diff(sequence, ideal_seq, partition) ==
    LET w == Len(sequence)
        dists == TM_distances(sequence, ideal_seq)
    IN  TM_partitions(dists, w \div partition, partition, 0)

(***************************************************************************)
(* PTMProcessor                                                            *)
(***************************************************************************)
PTMBins == 10

PTM_validate_config(params) ==
    IF ~({"partition", "base_length", "construction_method"} \subseteq DOMAIN params)
    THEN "False"
    ELSE IF ~(1 <= params["partition"] /\ params["partition"] <= 100) THEN "False"
    ELSE IF ~(1 <= params["base_length"] /\ params["base_length"] <= 10) THEN "False"
    ELSE IF Lower(params["construction_method"]) \notin {"nj", "upgma"} THEN "False"
    ELSE "True"

\* _three_base_state(target, ideal, win_len)
three_base_state(target, ideal, win_len) ==
    Cardinality({st \in 1..Min(win_len, Min(Len(target), Len(ideal))) :
                    target[st] = ideal[st]})

\* _partition_features, the partition loop from partition p on
RECURSIVE PTM_partitions(_, _, _, _)
PTM_partitions(dists, partition_size, partition, p) ==
    IF p >= partition THEN <<>>
    ELSE LET start_idx == p * partition_size
             end_idx   == Min((p + 1) * partition_size, Len(dists))
         IN  (IF start_idx < Len(dists)
              THEN Histogram(Slice(dists, start_idx, end_idx), PTMBins)
              ELSE Zeros(PTMBins))
             \o PTM_partitions(dists, partition_size, partition, p + 1)

partition_features(dists, partition) ==
    IF Len(dists) = 0 THEN Zeros(partition * PTMBins)
    ELSE PTM_partitions(dists, Len(dists) \div partition, partition, 0)

\* np.zeros(w - base_length + 1) raises ValueError for a negative size
three_base_seq_diff_raises(sequence, base_length) ==
    Len(sequence) - base_length + 1 < 0

three_base_seq_diff(sequence, ideal_seq, partition, base_length) ==
    LET w == Len(sequence)
        dists == [x \in 1..(w - base_length + 1) |->
                         three_base_state(Slice(sequence, x - 1, x - 1 + base_length),
                                          ideal_seq, base_length)]
    IN  partition_features(dists, partition)

\* _complement(base) of PTMProcessor and PartWiseTemplateMatchingV2Processor
PTM_complement(base) ==
    CASE base = "A" -> "T"
      [] base = "T" -> "A"
      [] base = "C" -> "G"
      [] base = "G" -> "C"
      [] OTHER      -> "N"

\* _four_base_state(target, ideal, win_len)
four_base_state(target, ideal, win_len) ==
    LET count == Cardinality({st \in 1..Min(win_len, Min(Len(target), Len(ideal))) :
                                 target[st] = ideal[st]})
    IN  IF count >= 3 THEN 3
        ELSE IF count = 2 THEN 2
        ELSE IF count = 1 THEN 1
        ELSE 0

\* _four_base_comp_state(target, ideal, win_len)
four_base_comp_state(target, ideal, win_len) ==
    LET range == 1..Min(win_len, Min(Len(target), Len(ideal)))
        fcont == Cardinality({st \in range : target[st] = ideal[st]})
        ccont == Cardinality({st \in range : PTM_complement(target[st]) = ideal[st]})
    IN  IF fcont = win_len THEN 3
        ELSE IF ccont = win_len THEN 2
        ELSE IF fcont >= 2 \/ ccont >= 2 THEN 1
        ELSE 0

four_base_seq_diff(sequence, ideal_seq, partition, base_length) ==
    LET w == Len(sequence)
        dists == [x \in 1..(w - base_length + 1) |->
                         four_base_state(Slice(sequence, x - 1, x - 1 + base_length),
                                         ideal_seq, base_length)]
    IN  partition_features(dists, partition)

four_base_comp_seq_diff(sequence, ideal_seq, partition, base_length) ==
    LET w == Len(sequence)
        dists == [x \in 1..(w - base_length + 1) |->
                         four_base_comp_state(Slice(sequence, x - 1, x - 1 + base_length),
                                              ideal_seq, base_length)]
    IN  partition_features(dists, partition)

\* The if / elif / else on similarity_method of
\* PartWiseTemplateMatchingV2Processor.process_sequences
PTMV2_seq_diff(similarity_method, sequence, ideal_seq, partition, base_length) ==
    IF similarity_method = "three_base"
    THEN three_base_seq_diff(sequence, ideal_seq, partition, base_length)
    ELSE IF similarity_method = "four_base"
    THEN four_base_seq_diff(sequence, ideal_seq, partition, base_length)
    ELSE four_base_comp_seq_diff(sequence, ideal_seq, partition, base_length)

PTMV2_validate_config(params) ==
    IF ~({"partition", "base_length", "similarity_method"} \subseteq DOMAIN params)
    THEN "False"
    ELSE IF ~(1 <= params["partition"] /\ params["partition"] <= 50) THEN "False"
    ELSE IF ~(3 <= params["base_length"] /\ params["base_length"] <= 10) THEN "False"
    ELSE IF params["similarity_method"] \notin {"three_base", "four_base", "four_base_comp"}
    THEN "False"
    ELSE IF Lower(Get(params, "tree_method", "nj")) \notin {"nj", "upgma"} THEN "False"
    ELSE "True"

(***************************************************************************)
(* DPTM_func.py, the module of the first user interface.                   *)
(***************************************************************************)
\* template_generation(k), the rounds i..n of `for i in range(k+1)`.  The
\* innermost loop `for k in range(i)` rebinds k, but range(k+1) was
\* evaluated before the first round, so the number of rounds stays n + 1.
RECURSIVE template_generation_from(_, _)
template_generation_from(i, n) ==
    IF i > n THEN <<>>
    ELSE LET copies(base) == [k \in 1..i |-> base]
         IN  copies("A") \o copies("G") \o template_generation_from(i + 1, n)

template_generation(k) == template_generation_from(0, k)

\* dynamic_match(ideal, seq, part_length, thresh_percent): ideal[i] or
\* seq[i] past the end raises IndexError inside the try, the handler prints
\* it, and the function returns count as initialised, 0
dynamic_match(ideal, seq, part_length, thresh_percent) ==
    IF Len(ideal) < part_length \/ Len(seq) < part_length THEN 0
    ELSE LET dc  == Cardinality({i \in 1..part_length : ideal[i] = seq[i]})
             cc  == Cardinality({i \in 1..part_length :
                                    ideal[i] = SeqComplement(seq[i])})
             doc == dc + cc
         IN  IF dc * 100 >= thresh_percent * part_length THEN 3
             ELSE IF cc * 100 >= thresh_percent * part_length THEN 2
             ELSE IF doc * 100 >= thresh_percent * part_length THEN 1
             ELSE 0

(***************************************************************************)
(* PTM_func.py, the module of the first user interface.                    *)
(***************************************************************************)
\* FourBaseWithCompState(target, ideal, winLen); target[st] or ideal[st]
\* past the end of the string raises IndexError
FourBaseWithCompState(target, ideal, winLen) ==
    IF Len(target) < winLen \/ Len(ideal) < winLen THEN "IndexError"
    ELSE LET fcont == Cardinality({st \in 1..winLen : target[st] = ideal[st]})
             ccont == Cardinality({st \in 1..winLen :
                                      PTM_complement(target[st]) = ideal[st]})
         IN  IF fcont = winLen THEN 3
             ELSE IF ccont = winLen THEN 2
             ELSE IF fcont = 2 \/ ccont = 2 THEN 1
             ELSE 0

\* self.ideal_sequence of PTM.run
PTM_func_ideal_sequence ==
    <<"A", "T", "C", "G", "A", "A", "T", "T", "C", "C", "G", "G",
      "A", "A", "A", "A", "T", "T", "T", "T", "C", "C", "C", "C",
      "G", "G", "G", "G">>

(***************************************************************************)
(* CGR_func.py, the module of the first user interface.                    *)
(***************************************************************************)
\* CGR_K_Mer: the anchor step on sequence[-1], then sequence[z-i-1] shifted
\* by 2**i / 2 for i = 1..z-1, and the 0-indexed coordinates
RECURSIVE CGR_K_Mer_Loop(_, _, _, _)
CGR_K_Mer_Loop(sequence, i, lx, ly) ==
    LET z == Len(sequence)
        baseInterval == Pow(2, i) \div 2
        nuec_base == sequence[z - i]
    IN  IF i >= z THEN <<lx - 1, ly - 1>>
        ELSE IF nuec_base = "G" THEN CGR_K_Mer_Loop(sequence, i + 1, lx + baseInterval, ly)
        ELSE IF nuec_base = "C" THEN CGR_K_Mer_Loop(sequence, i + 1, lx, ly + baseInterval)
        ELSE IF nuec_base = "T"
        THEN CGR_K_Mer_Loop(sequence, i + 1, lx + baseInterval, ly + baseInterval)
        ELSE CGR_K_Mer_Loop(sequence, i + 1, lx, ly)

CGR_K_Mer(sequence) ==
    LET z == Len(sequence)
    IN  IF z = 0 THEN <<0, 0>>
        ELSE IF sequence[z] = "G" THEN CGR_K_Mer_Loop(sequence, 1, 2, 1)
        ELSE IF sequence[z] = "C" THEN CGR_K_Mer_Loop(sequence, 1, 1, 2)
        ELSE IF sequence[z] = "T" THEN CGR_K_Mer_Loop(sequence, 1, 2, 2)
        ELSE CGR_K_Mer_Loop(sequence, 1, 1, 1)

(***************************************************************************)
(* TM_func.py, the module of the first user interface.                     *)
(***************************************************************************)
\* SeqDiff, the if/elif table: bit 0 is added as 2 ** t, bit 1 as
\* 2 ** (t + 1); a pair no branch names adds nothing
SeqDiffCode(idealSeqBase, seqBase) ==
    CASE idealSeqBase = "A" ->
            (CASE seqBase = "A" -> 3 [] seqBase = "C" -> 1
               [] seqBase = "G" -> 2 [] OTHER -> 0)
      [] idealSeqBase = "T" ->
            (CASE seqBase = "T" -> 3 [] seqBase = "C" -> 1
               [] seqBase = "G" -> 2 [] OTHER -> 0)
      [] idealSeqBase = "C" ->
            (CASE seqBase = "T" -> 1 [] seqBase = "C" -> 3
               [] seqBase = "G" -> 2 [] OTHER -> 0)
      [] idealSeqBase = "G" ->
            (CASE seqBase = "T" -> 1 [] seqBase = "C" -> 2
               [] seqBase = "G" -> 3 [] OTHER -> 0)
      [] OTHER -> 0

\* SeqDiff, `for j in range(idealSeqLength)` from j on with the running t
\* and decNum: t grows by 2 only when the offset is inside the sequence
RECURSIVE SeqDiffLoop(_, _, _, _, _, _)
SeqDiffLoop(sequence, idealSeq, i, j, t, decNum) ==
    LET w == Len(sequence)
        idealSeqLength == Len(idealSeq)
    IN  IF j >= idealSeqLength THEN decNum
        ELSE IF i + idealSeqLength - j <= w
        THEN SeqDiffLoop(sequence, idealSeq, i, j + 1, t + 2,
                         decNum + SeqDiffCode(idealSeq[idealSeqLength - j],
                                              sequence[i + idealSeqLength - j])
                                  * Pow(2, t))
        ELSE SeqDiffLoop(sequence, idealSeq, i, j + 1, t, decNum)

\* SeqDiff, the array `distances` after `for i in range(w)`
SeqDiffDistances(sequence, idealSeq) ==
    [x \in 1..Len(sequence) |-> SeqDiffLoop(sequence, idealSeq, x - 1, 0, 0, 0)]

(***************************************************************************)
(* TemplateMatchingProcessor.  Its features are fractions; the model keeps *)
(* each as an exact fraction <<numerator, denominator>> in lowest terms.   *)
(* similarity_threshold is held in hundredths (75 for 0.75), and           *)
(* similarity >= similarity_threshold is compared on integers.  The        *)
(* similarity cache _template_cache maps a pair of strings to a value      *)
(* that depends on the pair alone, so a hit returns what a miss computes.  *)
(***************************************************************************)
TMPLMaxTemplates == 50
TMPLFeaturesPerTemplate == 6

RECURSIVE GCD(_, _)
GCD(a, b) == IF b = 0 THEN a ELSE GCD(b, a % b)

\* the fraction n / d (n >= 0, d > 0) in lowest terms
Rat(n, d) == <<n \div GCD(n, d), d \div GCD(n, d)>>

\* str.upper()
Upper(sequence) ==
    [x \in 1..Len(sequence) |->
        CASE sequence[x] = "a" -> "A"
          [] sequence[x] = "c" -> "C"
          [] sequence[x] = "g" -> "G"
          [] sequence[x] = "t" -> "T"
          [] OTHER -> sequence[x]]

TMPL_validate_config(params) ==
    IF ~({"template_length", "similarity_threshold", "sliding_window_step"}
           \subseteq DOMAIN params) THEN "False"
    ELSE IF ~(5 <= params["template_length"] /\ params["template_length"] <= 100)
    THEN "False"
    ELSE IF ~(0 <= params["similarity_threshold"]
              /\ params["similarity_threshold"] <= 100) THEN "False"
    ELSE IF ~(1 <= params["sliding_window_step"]
              /\ params["sliding_window_step"] <= params["template_length"])
    THEN "False"
    ELSE IF ~(1 <= Get(params, "min_matches_required", 10)
              /\ Get(params, "min_matches_required", 10) <= 1000) THEN "False"
    ELSE "True"

\* _generate_templates: the sliding window from start i on
RECURSIVE TMPL_windows(_, _, _, _)
TMPL_windows(sequence, template_length, sliding_step, i) ==
    IF i >= Len(sequence) - template_length + 1 THEN <<>>
    ELSE <<Slice(sequence, i, i + template_length)>>
         \o TMPL_windows(sequence, template_length, sliding_step, i + sliding_step)

\* _generate_templates: remove duplicates while preserving order
RECURSIVE TMPL_unique(_, _)
TMPL_unique(templates, seen) ==
    IF templates = <<>> THEN <<>>
    ELSE IF Head(templates) \in seen THEN TMPL_unique(Tail(templates), seen)
    ELSE <<Head(templates)>>
         \o TMPL_unique(Tail(templates), seen \cup {Head(templates)})

generate_templates(sequence, template_length, sliding_step) ==
    LET unique_templates ==
            TMPL_unique(TMPL_windows(sequence, template_length, sliding_step, 0), {})
    IN  Slice(unique_templates, 0, Min(TMPLMaxTemplates, Len(unique_templates)))

\* _calculate_sequence_similarity, as the number of equal positions (the
\* similarity is that number over len(seq1))
calculate_sequence_similarity(seq1, seq2) ==
    IF Len(seq1) # Len(seq2) \/ Len(seq1) = 0 THEN 0
    ELSE Cardinality({x \in 1..Len(seq1) : seq1[x] = seq2[x]})

\* _find_template_matches: the windows from position i on
RECURSIVE TMPL_matches_from(_, _, _, _, _)
TMPL_matches_from(sequence, template, similarity_threshold, use_complement, i) ==
    IF i >= Len(sequence) - Len(template) + 1 THEN <<>>
    ELSE LET window == Slice(sequence, i, i + Len(template))
             complement_template == [x \in 1..Len(template) |-> SeqComplement(template[x])]
             similarity == calculate_sequence_similarity(template, window)
             comp_similarity == calculate_sequence_similarity(complement_template, window)
         IN  (IF similarity * 100 >= similarity_threshold * Len(template)
              THEN <<[position |-> i, similarity |-> similarity]>> ELSE <<>>)
             \o (IF use_complement
                    /\ comp_similarity * 100 >= similarity_threshold * Len(template)
                 THEN <<[position |-> i, similarity |-> comp_similarity]>> ELSE <<>>)
             \o TMPL_matches_from(sequence, template, similarity_threshold,
                                  use_complement, i + 1)

find_template_matches(sequence, template, similarity_threshold, use_complement) ==
    TMPL_matches_from(sequence, template, similarity_threshold, use_complement, 0)

\* the six features of one template
TMPL_template_features(matches, seq_len, template_length, min_matches) ==
    IF Len(matches) >= min_matches
    THEN LET match_count == Len(matches)
             sims        == [x \in 1..match_count |-> matches[x].similarity]
             positions   == [x \in 1..match_count |-> matches[x].position]
             sum_pos     == SumSeq(positions)
             sum_pos_sq  == SumSeq([x \in 1..match_count |-> positions[x] * positions[x]])
         IN  <<Rat(match_count, 1),
               Rat(match_count, seq_len - template_length + 1),
               Rat(SumSeq(sims), template_length * match_count),
               Rat(SeqMax(sims), template_length),
               IF match_count > 1
               THEN Rat(match_count * sum_pos_sq - sum_pos * sum_pos,
                        match_count * match_count)
               ELSE Rat(0, 1),
               Rat(SeqMax(positions) - SeqMin(positions), seq_len)>>
    ELSE [x \in 1..TMPLFeaturesPerTemplate |-> Rat(0, 1)]

\* _extract_template_features: the loop over the templates.  cfg holds
\* template_length, use_complement, similarity_threshold and min_matches.
RECURSIVE TMPL_feature_vector(_, _, _)
TMPL_feature_vector(sequence, templates, cfg) ==
    IF templates = <<>> THEN <<>>
    ELSE TMPL_template_features(
             find_template_matches(sequence, Head(templates),
                                   cfg.similarity_threshold, cfg.use_complement),
             Len(sequence), cfg.template_length, cfg.min_matches)
         \o TMPL_feature_vector(sequence, Tail(templates), cfg)

extract_template_features(seq, sliding_step, cfg) ==
    LET sequence == Upper(seq)
    IN  TMPL_feature_vector(sequence,
                            generate_templates(sequence, cfg.template_length,
                                               sliding_step),
                            cfg)

\* np.array(features) is a matrix only if the rows have one length, and
\* pairwise_distances needs at least one column
TMPL_is_matrix(features) ==
    /\ \A a, b \in DOMAIN features : Len(features[a]) = Len(features[b])
    /\ \A a \in DOMAIN features : Len(features[a]) > 0

\* _normalize_features and _calculate_distance_matrix.  Two rows differ in
\* a column exactly when their z-scores in that column differ, so the
\* distance of two rows is 0 exactly when the rows are equal; of a distance
\* the model keeps whether it is 0.
TMPL_distance_matrix(features) ==
    [a \in 1..Len(features) |-> [b \in 1..Len(features) |->
        IF a = b \/ features[a] = features[b] THEN 0 ELSE 1]]

(***************************************************************************)
(* ChaosGameFrequencyProcessor and PartWiseTemplateMatchingProcessor: the  *)
(* configuration checks.  similarity_threshold is in hundredths.           *)
(***************************************************************************)
CGF_validate_config(params) ==
    IF ~({"window_size", "step_size", "grid_resolution"} \subseteq DOMAIN params)
    THEN "False"
    ELSE IF ~(100 <= params["window_size"] /\ params["window_size"] <= 10000)
    THEN "False"
    ELSE IF ~(10 <= params["step_size"] /\ params["step_size"] <= params["window_size"])
    THEN "False"
    ELSE IF ~(8 <= params["grid_resolution"] /\ params["grid_resolution"] <= 256)
    THEN "False"
    ELSE IF ~(0 <= Get(params, "min_frequency", 1)
              /\ Get(params, "min_frequency", 1) <= 100) THEN "False"
    ELSE IF Get(params, "cgr_iterations", None) # None
            /\ ~(100 <= params["cgr_iterations"] /\ params["cgr_iterations"] <= 50000)
    THEN "False"
    ELSE "True"

PTMV1_validate_config(params) ==
    IF ~({"part_size", "overlap", "template_length", "similarity_threshold"}
           \subseteq DOMAIN params) THEN "False"
    ELSE IF ~(20 <= params["part_size"] /\ params["part_size"] <= 500) THEN "False"
    ELSE IF ~(0 <= params["overlap"] /\ params["overlap"] < params["part_size"])
    THEN "False"
    ELSE IF ~(5 <= params["template_length"]
              /\ params["template_length"] <= params["part_size"]) THEN "False"
    ELSE IF ~(0 <= params["similarity_threshold"]
              /\ params["similarity_threshold"] <= 100) THEN "False"
    ELSE IF ~(1 <= Get(params, "min_matches_per_part", 3)
              /\ Get(params, "min_matches_per_part", 3) <= 50) THEN "False"
    ELSE IF ~(10 <= Get(params, "max_parts_per_sequence", 100)
              /\ Get(params, "max_parts_per_sequence", 100) <= 1000) THEN "False"
    ELSE "True"

\* get_default_config().parameters of the processors load_all_plugins loads
get_default_config(p) ==
    CASE p = DPTM  -> [k_length |-> 4, threshold_percent |-> 50, part_length |-> 10,
                       histogram_reduction_rate |-> 1]
      [] p = CGF   -> [window_size |-> 1000, step_size |-> 500, grid_resolution |-> 64,
                       min_frequency |-> 1, normalize_frequencies |-> TRUE,
                       use_sliding_window |-> TRUE, cgr_iterations |-> None]
      [] p = TMPL  -> [template_length |-> 20, similarity_threshold |-> 75,
                       sliding_window_step |-> 5, use_complement |-> TRUE,
                       normalize_scores |-> TRUE, min_matches_required |-> 10]
      [] p = PTMV1 -> [part_size |-> 50, overlap |-> 25, template_length |-> 15,
                       similarity_threshold |-> 75, use_complement |-> TRUE,
                       min_matches_per_part |-> 3, normalize_scores |-> TRUE,
                       weight_by_position |-> FALSE, max_parts_per_sequence |-> 100]

(***************************************************************************)
(* Dispatch on the processor class.                                        *)
(***************************************************************************)
\* processor.validate_config(config): "True", "False", or the exception
validate_config(p, params) ==
    CASE p = DPTM -> IF DPTM_validate_config(params) THEN "True" ELSE "False"
      [] p = CGR  -> CGR_validate_config(params)
      [] p = TM   -> TM_validate_config(params)
      [] p = PTM  -> PTM_validate_config(params)
      [] p = PTMV2 -> PTMV2_validate_config(params)
      [] p = TMPL -> TMPL_validate_config(params)
      [] p = CGF  -> CGF_validate_config(params)
      [] p = PTMV1 -> PTMV1_validate_config(params)
      [] OTHER    -> "False"

\* The parameters process_sequences reads with params[...] (a missing one
\* raises KeyError); the others are read with params.get
RequiredByProcess(p) ==
    CASE p = DPTM -> {"k_length", "threshold_percent", "part_length",
                      "construction_method"}
      [] p = CGR  -> {"kmer_length", "construction_method"}
      [] p = TM   -> {"partition", "construction_method"}
      [] p = PTM  -> {"partition", "base_length", "construction_method"}
      [] p = PTMV2 -> {"partition", "base_length", "similarity_method"}
      [] p = TMPL -> {"template_length", "similarity_threshold",
                      "sliding_window_step"}
      [] p = CGF  -> {"window_size", "step_size", "grid_resolution"}
      [] p = PTMV1 -> {"part_size", "overlap", "template_length",
                       "similarity_threshold"}
      [] OTHER    -> {}

\* The smallest batch process_sequences accepts
MinSequences(p) == IF p \in {TMPL, CGF, PTMV1} THEN 2 ELSE 1

\* DPTM: int(feature_size / hist_reduction_rate), the number of histogram bins
DPTMBins(params) ==
    IntDiv(DPTM_feature_size(params["k_length"]),
           Get(params, "histogram_reduction_rate", 1))

(***************************************************************************)
(* Initial state: a new PluginRegistry and a new AnalysisService.          *)
(***************************************************************************)
EmptyMap == [x \in {} |-> None]

Init ==
    /\ processors = EmptyMap
    /\ loaders = <<>>
    /\ visualizers = <<>>
    /\ cb_status = None
    /\ cb_progress = <<>>
    /\ dict_mapping = DPTMInitCache
    /\ n_calls = 0
    /\ svc_pc = "idle"
    /\ svc_method = None
    /\ svc_config = EmptyMap
    /\ svc_nseq = 0
    /\ svc_sequences = <<>>
    /\ svc_processor = None
    /\ svc_valid = None
    /\ svc_outcome = None
    /\ current_result = NoCall
    /\ run_pc = "none"
    /\ run_idx = 0
    /\ sequence_names = <<>>
    /\ descriptors = <<>>
    /\ win_i = 0
    /\ part_j = 0
    /\ dec_num = 0
    /\ dec_pos_count = 0
    /\ feature = <<>>
    /\ last_match = Nothing
    /\ run_seen = EmptyMap
    /\ distances = Nothing
    /\ tree_built = None
    /\ dist_matrix = Nothing
    /\ run_error = None
    /\ fn_call = Nothing

libVars == <<fn_call>>
svcVars == <<svc_pc, svc_method, svc_config, svc_nseq, svc_sequences, svc_processor,
             svc_valid, svc_outcome, current_result, n_calls,
             cb_status, cb_progress>>
dptmLoopVars == <<win_i, part_j, dec_num, dec_pos_count, feature>>
runVars == <<run_pc, run_idx, sequence_names, descriptors, win_i, part_j, dec_num,
             dec_pos_count, feature, last_match, run_seen, distances, tree_built, dist_matrix,
             run_error>>

(***************************************************************************)
(* PluginRegistry.register_processor(processor): a new instance of class p *)
(* replaces whatever was registered under its method name.  A new          *)
(* DPTMProcessor brings its own new cache.  Registration happens between   *)
(* analyses.                                                               *)
(***************************************************************************)
\* a mutant: a name already in the registry keeps its processor
RegistryKeepingFirst(registry, p) ==
    [n \in DOMAIN registry \cup {get_method_name(p)} |->
        IF n \in DOMAIN registry THEN registry[n] ELSE p]

\* self._processors[name] = processor, with name = processor.get_method_name()
RegistryWith(registry, p) ==
    [n \in DOMAIN registry \cup {get_method_name(p)} |->
        IF n = get_method_name(p) THEN p ELSE registry[n]]

register_processor(p) ==
    /\ svc_pc = "idle"
    /\ processors' = RegistryWith(processors, p)
    /\ dict_mapping' = IF p = DPTM THEN DPTMInitCache ELSE dict_mapping
    /\ UNCHANGED <<libVars, loaders, visualizers, svcVars, runVars>>

(***************************************************************************)
(* AnalysisService.analyze_sequences(sequences, method_name, config)       *)
(***************************************************************************)
AnalyzeBegin(method, config, n) ==
    /\ svc_pc = "idle"
    /\ n_calls < MaxCalls
    /\ n_calls' = n_calls + 1
    /\ svc_pc' = "get_processor"
    /\ cb_status' = "Initializing analysis..."
    /\ cb_progress' = <<0>>
    /\ svc_method' = method
    /\ svc_config' = config
    /\ svc_nseq' = n
    /\ svc_sequences' = <<>>
    /\ svc_processor' = None
    /\ svc_valid' = None
    /\ svc_outcome' = None
    /\ run_pc' = "none"
    /\ run_idx' = 0
    /\ sequence_names' = <<>>
    /\ descriptors' = <<>>
    /\ win_i' = 0 /\ part_j' = 0 /\ dec_num' = 0 /\ dec_pos_count' = 0
    /\ feature' = <<>>
    /\ last_match' = Nothing
    /\ run_seen' = EmptyMap
    /\ distances' = Nothing
    /\ tree_built' = None
    /\ dist_matrix' = Nothing
    /\ run_error' = None
    /\ UNCHANGED <<libVars, processors, loaders, visualizers, dict_mapping, current_result>>

\* processor = self.registry.get_processor_by_name(method_name)
AnalyzeGetProcessor ==
    /\ svc_pc = "get_processor"
    /\ IF svc_method \in DOMAIN processors
       THEN /\ svc_processor' = processors[svc_method]
            /\ svc_pc' = "validate"
            /\ UNCHANGED svc_outcome
       ELSE /\ svc_outcome' = "ValueError: Unknown analysis method"
            /\ svc_pc' = "idle"
            /\ UNCHANGED svc_processor
    /\ UNCHANGED <<libVars, processors, loaders, visualizers, dict_mapping, n_calls, cb_status,
                   cb_progress, svc_method,
                   svc_config, svc_nseq, svc_sequences, svc_valid, current_result, runVars>>

\* a mutant: the result of validate_config is not looked at
AnalyzeValidateMut ==
    /\ svc_pc = "validate"
    /\ svc_valid' = validate_config(svc_processor, svc_config)
    /\ svc_pc' = "process"
    /\ cb_status' = "Processing sequences..."
    /\ cb_progress' = Append(cb_progress, 2)
    /\ UNCHANGED <<libVars, processors, loaders, visualizers, dict_mapping, n_calls, svc_method,
                   svc_config, svc_nseq, svc_sequences, svc_processor, svc_outcome,
                   current_result, runVars>>

\* if not processor.validate_config(config): raise ValueError
AnalyzeValidate ==
    /\ svc_pc = "validate"
    /\ svc_valid' = validate_config(svc_processor, svc_config)
    /\ IF svc_valid' = "True"
       THEN /\ svc_pc' = "process"
            /\ cb_status' = "Processing sequences..."
            /\ cb_progress' = Append(cb_progress, 2)
            /\ UNCHANGED svc_outcome
       ELSE /\ svc_pc' = "idle"
            /\ UNCHANGED <<cb_status, cb_progress>>
            /\ svc_outcome' = IF svc_valid' = "False"
                              THEN "ValueError: Invalid configuration"
                              ELSE svc_valid'
    /\ UNCHANGED <<libVars, processors, loaders, visualizers, dict_mapping, n_calls, svc_method,
                   svc_config, svc_nseq, svc_sequences, svc_processor, current_result,
                   runVars>>

\* result = processor.process_sequences(sequences, config): the call
AnalyzeProcess ==
    /\ svc_pc = "process"
    /\ svc_pc' = "in_process"
    /\ run_pc' = "start"
    /\ UNCHANGED <<libVars, processors, loaders, visualizers, dict_mapping, n_calls, cb_status,
                   cb_progress, svc_method,
                   svc_config, svc_nseq, svc_sequences, svc_processor, svc_valid,
                   svc_outcome, current_result, run_idx, sequence_names,
                   descriptors, dptmLoopVars, last_match, run_seen, distances,
                   tree_built, dist_matrix, run_error>>

\* self._current_result = result; return result
AnalyzeReturn ==
    /\ svc_pc = "in_process"
    /\ run_pc = "returned"
    /\ current_result' = n_calls
    /\ svc_outcome' = "returned"
    /\ svc_pc' = "idle"
    /\ cb_status' = "Analysis completed"
    /\ cb_progress' = Append(cb_progress, 10)
    /\ UNCHANGED <<libVars, processors, loaders, visualizers, dict_mapping, n_calls, svc_method,
                   svc_config, svc_nseq, svc_sequences, svc_processor, svc_valid, runVars>>

\* a mutant: the failed call clears the stored result
AnalyzeFailClearing ==
    /\ svc_pc = "in_process"
    /\ run_pc = "raised"
    /\ svc_outcome' = "Exception: Analysis failed"
    /\ svc_pc' = "idle"
    /\ cb_status' = "Analysis failed"
    /\ UNCHANGED cb_progress
    /\ current_result' = NoCall
    /\ UNCHANGED <<libVars, processors, loaders, visualizers, dict_mapping, n_calls, svc_method,
                   svc_config, svc_nseq, svc_sequences, svc_processor, svc_valid,
                   runVars>>

\* except Exception as e: raise Exception(f"Analysis failed: {str(e)}")
AnalyzeFail ==
    /\ svc_pc = "in_process"
    /\ run_pc = "raised"
    /\ svc_outcome' = "Exception: Analysis failed"
    /\ svc_pc' = "idle"
    /\ cb_status' = "Analysis failed"
    /\ UNCHANGED cb_progress
    /\ UNCHANGED <<libVars, processors, loaders, visualizers, dict_mapping, n_calls, svc_method,
                   svc_config, svc_nseq, svc_sequences, svc_processor, svc_valid,
                   current_result, runVars>>

(***************************************************************************)
(* processor.process_sequences(sequences, config), step by step.           *)
(***************************************************************************)
NSeq == svc_nseq
CurSeq == svc_sequences[run_idx].sequence

\* The loop reads sequences[run_idx], whose bases are s.  The length of the
\* batch is fixed by the call; the content of an element is drawn when the
\* loop first reads it (nothing reads it earlier).  The k-th sequence is
\* named k.
ReadSequence(s) ==
    svc_sequences' = Append(svc_sequences, [name |-> run_idx, sequence |-> s])

svcFrame == <<svc_pc, svc_method, svc_config, svc_nseq, svc_processor, svc_valid,
              svc_outcome, current_result, n_calls,
             cb_status, cb_progress>>

Raise(err) ==
    /\ run_pc' = "raised"
    /\ run_error' = err

\* The checks and parameter reads before the main loop
ProcessStart ==
    /\ run_pc = "start"
    /\ IF NSeq = 0
       THEN Raise("ValueError: No sequences provided for analysis")
       ELSE IF NSeq < MinSequences(svc_processor)
       THEN Raise("ValueError: At least 2 sequences are required")
       ELSE IF ~(RequiredByProcess(svc_processor) \subseteq DOMAIN svc_config)
       THEN Raise("KeyError")
       ELSE IF svc_processor = DPTM
               /\ Get(svc_config, "histogram_reduction_rate", 1) = 0
       THEN Raise("ZeroDivisionError")
       ELSE run_pc' = "loop" /\ UNCHANGED run_error
    /\ run_idx' = 1
    /\ UNCHANGED <<libVars, processors, loaders, visualizers, dict_mapping, svcVars,
                   sequence_names, descriptors, dptmLoopVars, last_match,
                   run_seen, distances, tree_built, dist_matrix>>

(***************************************************************************)
(* DPTM: the loop body and _calculate_dynamic_features.                    *)
(***************************************************************************)
DPTMTemplate == DPTM_generate_template(svc_config["k_length"])

\* a mutant: the key is the sequence part alone
DPTMCacheKeyOfSeqPart(ideal_part, seq_part) == seq_part

\* cache_key = ideal_part + seq_part
DPTMCacheKey(ideal_part, seq_part) == ideal_part \o seq_part

\* hist = np.histogram(features, bins); descriptor[i] = hist[0]
DPTMFinishSequence(features) ==
    IF DPTMBins(svc_config) = 0
    THEN /\ Raise("ValueError: bins must be positive")
         /\ UNCHANGED <<descriptors, run_idx>>
    ELSE /\ descriptors' = Append(descriptors, Histogram(features, DPTMBins(svc_config)))
         /\ run_idx' = run_idx + 1
         /\ run_pc' = "loop"
         /\ UNCHANGED run_error

\* for i, seq_data in enumerate(sequences): ... for i in range(0, n - t)
DPTMBeginSequence(s) ==
    /\ run_pc = "loop"
    /\ svc_processor = DPTM
    /\ run_idx <= NSeq
    /\ ReadSequence(s)
    /\ sequence_names' = Append(sequence_names, run_idx)
    /\ win_i' = 0 /\ part_j' = 0 /\ dec_num' = 0 /\ dec_pos_count' = 0
    /\ feature' = <<>>
    /\ IF Len(s) - Len(DPTMTemplate) <= 0
       THEN DPTMFinishSequence(<<>>)
       ELSE run_pc' = "parts" /\ UNCHANGED <<descriptors, run_idx, run_error>>
    /\ UNCHANGED <<libVars, processors, loaders, visualizers, dict_mapping, svcFrame, last_match,
                   run_seen, distances, tree_built, dist_matrix>>

\* One iteration of `for j in range(0, t, part_length)`: the cache lookup,
\* the classification and the update of dec_num; the last j of a window
\* appends the feature number, the last window ends the sequence.
DPTMClassifyPart ==
    /\ run_pc = "parts"
    /\ LET part_length == svc_config["part_length"]
           threshold   == svc_config["threshold_percent"]
           t           == Len(DPTMTemplate)
           n           == Len(CurSeq)
           ideal_part  == Slice(DPTMTemplate, part_j, part_j + part_length)
           seq_part    == Slice(CurSeq, win_i + part_j, win_i + part_j + part_length)
           cache_key   == DPTMCacheKey(ideal_part, seq_part)
           hit         == cache_key \in DOMAIN dict_mapping
           count       == IF hit THEN dict_mapping[cache_key]
                          ELSE DynamicMatch(ideal_part, seq_part, part_length, threshold)
           pair        == <<ideal_part, seq_part>>
           newdec      == dec_num + DPTMCodeBits(count, dec_pos_count)
       IN  /\ dict_mapping' =
                 IF hit THEN dict_mapping
                 ELSE [k \in DOMAIN dict_mapping \cup {cache_key} |->
                          IF k = cache_key THEN count ELSE dict_mapping[k]]
           /\ last_match' = <<[ideal |-> ideal_part, seq |-> seq_part,
                               count |-> count, computed |-> ~hit,
                               first |-> pair \notin DOMAIN run_seen]>>
           /\ run_seen' =
                 IF pair \in DOMAIN run_seen THEN run_seen
                 ELSE [k \in DOMAIN run_seen \cup {pair} |->
                          IF k = pair THEN count ELSE run_seen[k]]
           /\ IF part_j + part_length < t
              THEN /\ part_j' = part_j + part_length
                   /\ dec_num' = newdec
                   /\ UNCHANGED <<win_i, dec_pos_count, feature, descriptors,
                                  run_idx, run_pc, run_error>>
              ELSE /\ feature' = Append(feature, newdec)
                   /\ part_j' = 0 /\ dec_num' = 0 /\ dec_pos_count' = 0
                   /\ IF win_i + 1 < n - t
                      THEN /\ win_i' = win_i + 1
                           /\ UNCHANGED <<descriptors, run_idx, run_pc, run_error>>
                      ELSE /\ win_i' = 0
                           /\ DPTMFinishSequence(feature')
    /\ UNCHANGED <<libVars, processors, loaders, visualizers, svcVars, sequence_names, distances,
                   tree_built, dist_matrix>>

(***************************************************************************)
(* CGR: the loop body.                                                     *)
(***************************************************************************)
CGRProcessSequence(s) ==
    /\ run_pc = "loop"
    /\ svc_processor = CGR
    /\ run_idx <= NSeq
    /\ ReadSequence(s)
    /\ sequence_names' = Append(sequence_names, run_idx)
    /\ descriptors' = Append(descriptors,
                             cgr_image_kmer_count(s, svc_config["kmer_length"]))
    /\ run_idx' = run_idx + 1
    /\ UNCHANGED <<libVars, processors, loaders, visualizers, dict_mapping, svcFrame, run_pc,
                   dptmLoopVars, last_match, run_seen, distances, tree_built, dist_matrix,
                   run_error>>

(***************************************************************************)
(* TM: the loop body.                                                      *)
(***************************************************************************)
TMProcessSequence(s) ==
    /\ run_pc = "loop"
    /\ svc_processor = TM
    /\ run_idx <= NSeq
    /\ ReadSequence(s)
    /\ sequence_names' = Append(sequence_names, run_idx)
    /\ descriptors' = Append(descriptors,
                             seq_diff(s, generate_ideal_sequence(TMIdealLength),
                                      svc_config["partition"]))
    /\ run_idx' = run_idx + 1
    /\ UNCHANGED <<libVars, processors, loaders, visualizers, dict_mapping, svcFrame, run_pc,
                   dptmLoopVars, last_match, run_seen, distances, tree_built, dist_matrix,
                   run_error>>

(***************************************************************************)
(* PTM: the loop body; similarity_method is always 'three_base'.           *)
(***************************************************************************)
PTMProcessSequence(s) ==
    /\ run_pc = "loop"
    /\ svc_processor = PTM
    /\ run_idx <= NSeq
    /\ ReadSequence(s)
    /\ sequence_names' = Append(sequence_names, run_idx)
    /\ IF three_base_seq_diff_raises(s, svc_config["base_length"])
       THEN /\ Raise("ValueError: negative dimensions are not allowed")
            /\ UNCHANGED <<descriptors, run_idx>>
       ELSE /\ descriptors' =
                  Append(descriptors,
                         three_base_seq_diff(s,
                             generate_ideal_sequence(svc_config["base_length"]),
                             svc_config["partition"], svc_config["base_length"]))
            /\ run_idx' = run_idx + 1
            /\ UNCHANGED <<run_pc, run_error>>
    /\ UNCHANGED <<libVars, processors, loaders, visualizers, dict_mapping, svcFrame,
                   dptmLoopVars, last_match, run_seen, distances, tree_built, dist_matrix>>

(***************************************************************************)
(* Part-wise Template Matching V2: the loop body with the classifier its   *)
(* configuration names, and the tree and AnalysisResult(...) called        *)
(* without its `newick` field.                                             *)
(***************************************************************************)
PTMV2ProcessSequence(s) ==
    /\ run_pc = "loop"
    /\ svc_processor = PTMV2
    /\ run_idx <= NSeq
    /\ ReadSequence(s)
    /\ sequence_names' = Append(sequence_names, run_idx)
    /\ IF three_base_seq_diff_raises(s, svc_config["base_length"])
       THEN /\ Raise("ValueError: negative dimensions are not allowed")
            /\ UNCHANGED <<descriptors, run_idx>>
       ELSE /\ descriptors' =
                  Append(descriptors,
                         PTMV2_seq_diff(svc_config["similarity_method"], s,
                             generate_ideal_sequence(svc_config["base_length"]),
                             svc_config["partition"], svc_config["base_length"]))
            /\ run_idx' = run_idx + 1
            /\ UNCHANGED <<run_pc, run_error>>
    /\ UNCHANGED <<libVars, processors, loaders, visualizers, dict_mapping, svcFrame,
                   dptmLoopVars, last_match, run_seen, distances, tree_built, dist_matrix>>

PTMV2BuildTree ==
    /\ run_pc = "tree"
    /\ svc_processor = PTMV2
    /\ dist_matrix' = lower_triangular_rows(distances)
    /\ tree_built' = IF Lower(Get(svc_config, "tree_method", "nj")) = "upgma"
                     THEN "upgma" ELSE "nj"
    /\ Raise("TypeError: AnalysisResult() missing newick")
    /\ UNCHANGED <<libVars, processors, loaders, visualizers, dict_mapping, svcVars, run_idx,
                   sequence_names, descriptors, dptmLoopVars, last_match,
                   run_seen, distances>>

(***************************************************************************)
(* Template Matching: the loop body, the feature matrix and its distances, *)
(* the tree, and AnalysisResult(...) called without its `newick` field.    *)
(***************************************************************************)
TMPLProcessSequence(s) ==
    /\ run_pc = "loop"
    /\ svc_processor = TMPL
    /\ run_idx <= NSeq
    /\ ReadSequence(s)
    /\ sequence_names' = Append(sequence_names, run_idx)
    /\ descriptors' =
          Append(descriptors,
                 extract_template_features(s, svc_config["sliding_window_step"],
                     [template_length |-> svc_config["template_length"],
                      use_complement |-> Get(svc_config, "use_complement", TRUE),
                      similarity_threshold |-> svc_config["similarity_threshold"],
                      min_matches |-> Get(svc_config, "min_matches_required", 10)]))
    /\ run_idx' = run_idx + 1
    /\ UNCHANGED <<libVars, processors, loaders, visualizers, dict_mapping, svcFrame, run_pc,
                   dptmLoopVars, last_match, run_seen, distances, tree_built, dist_matrix,
                   run_error>>

TMPLDistances ==
    /\ run_pc = "loop"
    /\ svc_processor = TMPL
    /\ run_idx > NSeq
    /\ IF TMPL_is_matrix(descriptors)
       THEN /\ distances' = TMPL_distance_matrix(descriptors)
            /\ run_pc' = "tree"
            /\ UNCHANGED run_error
       ELSE /\ Raise("ValueError: not a feature matrix")
            /\ UNCHANGED distances
    /\ UNCHANGED <<libVars, processors, loaders, visualizers, dict_mapping, svcVars, run_idx,
                   sequence_names, descriptors, dptmLoopVars, last_match,
                   run_seen, tree_built, dist_matrix>>

TMPLBuildTree ==
    /\ run_pc = "tree"
    /\ svc_processor = TMPL
    /\ dist_matrix' = [x \in 1..Len(distances) |->
                          DelSlice(distances[x], x, Len(distances[x]))]
    /\ tree_built' = "nj"
    /\ Raise("TypeError: AnalysisResult() missing newick")
    /\ UNCHANGED <<libVars, processors, loaders, visualizers, dict_mapping, svcVars, run_idx,
                   sequence_names, descriptors, dptmLoopVars, last_match,
                   run_seen, distances>>

(***************************************************************************)
(* Chaos Game Frequency and Part-wise Template Matching: the feature       *)
(* extraction and the distances are not followed; they end in an exception *)
(* or reach the tree.  AnalysisResult(...) is then called without its      *)
(* `newick` field.                                                         *)
(***************************************************************************)
FeaturesNotFollowed ==
    /\ run_pc = "loop"
    /\ svc_processor \in {CGF, PTMV1}
    /\ sequence_names' = [i \in 1..NSeq |-> i]
    /\ run_idx' = NSeq + 1
    /\ \/ run_pc' = "tree" /\ UNCHANGED run_error
       \/ Raise("exception in the feature extraction or the distances")
    /\ UNCHANGED <<libVars, processors, loaders, visualizers, dict_mapping, svcVars, descriptors,
                   dptmLoopVars, last_match, run_seen, distances, tree_built, dist_matrix>>

ResultWithoutNewick ==
    /\ run_pc = "tree"
    /\ svc_processor \in {CGF, PTMV1}
    /\ tree_built' = "nj"
    /\ UNCHANGED dist_matrix
    /\ Raise("TypeError: AnalysisResult() missing newick")
    /\ UNCHANGED <<libVars, processors, loaders, visualizers, dict_mapping, svcVars, run_idx,
                   sequence_names, descriptors, dptmLoopVars, last_match,
                   run_seen, distances>>

(***************************************************************************)
(* PluginLoader.load_all_plugins(): _load_core_plugins registers a new     *)
(* DPTMProcessor, then ChaosGameFrequencyProcessor,                        *)
(* TemplateMatchingProcessor and PartWiseTemplateMatchingProcessor; its    *)
(* third block imports template_matching_v2_plugin, which does not exist,  *)
(* so the ImportError handler runs and that block registers nothing.       *)
(***************************************************************************)
LoadedByCorePlugins == <<DPTM, CGF, TMPL, PTMV1>>

RECURSIVE RegisterAll(_, _)
RegisterAll(registry, ps) ==
    IF ps = <<>> THEN registry
    ELSE RegisterAll(RegistryWith(registry, Head(ps)), Tail(ps))

\* _load_adapter_plugins: register_loader(BioPythonSequenceLoader()) and
\* register_visualizer(MatplotlibTreeVisualizer()) append a new instance
load_adapter(registered, adapter) == Append(registered, adapter)

\* the calls are counted by the loaders they leave, up to MaxLoads
load_all_plugins ==
    /\ svc_pc = "idle"
    /\ Len(loaders) < MaxLoads
    /\ processors' = RegisterAll(processors, LoadedByCorePlugins)
    /\ dict_mapping' = DPTMInitCache
    /\ loaders' = load_adapter(loaders, "BioPythonSequenceLoader")
    /\ visualizers' = load_adapter(visualizers, "MatplotlibTreeVisualizer")
    /\ UNCHANGED <<libVars, svcVars, runVars>>

(***************************************************************************)
(* After the loop: the distance matrix, then the tree.                     *)
(***************************************************************************)
\* distances = pairwise_distances(descriptor, metric='euclidean')
ComputeDistances ==
    /\ run_pc = "loop"
    /\ svc_processor \in {DPTM, CGR, TM, PTM, PTMV2}
    /\ run_idx > NSeq
    /\ distances' = pairwise_distances(descriptors)
    /\ run_pc' = "tree"
    /\ UNCHANGED <<libVars, processors, loaders, visualizers, dict_mapping, svcVars, run_idx,
                   sequence_names, descriptors, dptmLoopVars, last_match,
                   run_seen, tree_built, dist_matrix, run_error>>

\* The constructor method whose tree ends up in the result.  DPTM builds a
\* tree by the named method and then overwrites it with constructor.nj.
TreeMethod(p, params) ==
    IF p = DPTM THEN "nj"
    ELSE IF Lower(params["construction_method"]) = "upgma" THEN "upgma" ELSE "nj"

BuildTree ==
    /\ run_pc = "tree"
    /\ svc_processor \in {DPTM, CGR, TM, PTM}
    /\ dist_matrix' = IF svc_processor = DPTM
                      THEN to_lower_triangular_del(distances)
                      ELSE lower_triangular_rows(distances)
    /\ tree_built' = TreeMethod(svc_processor, svc_config)
    /\ run_pc' = "returned"
    /\ UNCHANGED <<libVars, processors, loaders, visualizers, dict_mapping, svcVars, run_idx,
                   sequence_names, descriptors, dptmLoopVars, last_match,
                   run_seen, distances, run_error>>

\* Bio.Phylo's constructors are not part of this repository; on a one-taxon
\* matrix they may fail, so that outcome is left open.
BuildTreeFails ==
    /\ run_pc = "tree"
    /\ Len(sequence_names) < 2
    /\ Raise("Bio.Phylo: tree construction failed")
    /\ UNCHANGED <<libVars, processors, loaders, visualizers, dict_mapping, svcVars, run_idx,
                   sequence_names, descriptors, dptmLoopVars, last_match,
                   run_seen, distances, tree_built, dist_matrix>>

(***************************************************************************)
(* Inputs.                                                                 *)
(***************************************************************************)
With(params, key, val) ==
    [x \in DOMAIN params \cup {key} |-> IF x = key THEN val ELSE params[x]]

DPTMParams(k, thr, pl) ==
    [k_length |-> k, threshold_percent |-> thr, part_length |-> pl]

DPTMConfigs ==
    {With(DPTMParams(1, 50, 2), "construction_method", "nj"),
     With(DPTMParams(1, 100, 2), "construction_method", "nj"),
     With(DPTMParams(1, 100, 1), "construction_method", "nj"),
     With(DPTMParams(1, 50, 2), "construction_method", "upgma")}
    \cup {DPTMParams(1, 50, 2),
          With(With(DPTMParams(1, 50, 2), "construction_method", "nj"),
               "histogram_reduction_rate", 0),
          With(With(DPTMParams(1, 50, 2), "construction_method", "nj"),
               "histogram_reduction_rate", 2),
          With(With(DPTMParams(1, 50, 2), "construction_method", "nj"),
               "histogram_reduction_rate", 32),
          With(DPTMParams(1, 101, 2), "construction_method", "nj"),
          With(DPTMParams(1, 50, 0), "construction_method", "nj"),
          [k_length |-> 1, threshold_percent |-> 50, construction_method |-> "nj"]}

DPTMStrings ==
    {<<>>, <<"A", "G">>, <<"A", "T", "A">>, <<"T", "C", "A">>,
     <<"A", "T", "A", "T">>}


(***************************************************************************)
(* The DPTM specification: DPTMProcessor registered and driven through the *)
(* AnalysisService.                                                        *)
(***************************************************************************)
ProcessSteps ==
    \/ ProcessStart
    \/ ComputeDistances
    \/ BuildTree
    \/ BuildTreeFails

ServiceSteps ==
    \/ AnalyzeGetProcessor
    \/ AnalyzeValidate
    \/ AnalyzeProcess
    \/ AnalyzeReturn
    \/ AnalyzeFail

NextDPTM ==
    \/ register_processor(DPTM)
    \/ \E config \in DPTMConfigs, n \in 0..DPTMMaxBatch :
          AnalyzeBegin(get_method_name(DPTM), config, n)
    \/ ServiceSteps
    \/ ProcessSteps
    \/ \E s \in DPTMStrings : DPTMBeginSequence(s)
    \/ DPTMClassifyPart

SpecDPTM == Init /\ [][NextDPTM]_vars

(***************************************************************************)
(* The cache-key specification: DPTMProcessor run on templates that the    *)
(* part length does not divide and on reads with lower-case letters.       *)
(***************************************************************************)
KeyConfigs ==
    {With(DPTMParams(2, 50, 4), "construction_method", "nj"),
     With(DPTMParams(1, 50, 3), "construction_method", "nj"),
     With(DPTMParams(1, 50, 1), "construction_method", "nj")}

KeyStrings ==
    {<<"A", "G", "A", "A", "G", "A", "T">>,
     <<"a", "a", "G", "A", "a", "G", "A", "T">>,
     <<"A", "a", "a">>}

NextKeys ==
    \/ register_processor(DPTM)
    \/ \E config \in KeyConfigs, n \in 0..KeysMaxBatch :
          /\ n_calls < EnginesMaxCalls
          /\ AnalyzeBegin(get_method_name(DPTM), config, n)
    \/ ServiceSteps
    \/ ProcessSteps
    \/ \E s \in KeyStrings : DPTMBeginSequence(s)
    \/ DPTMClassifyPart

SpecKeys == Init /\ [][NextKeys]_vars

(***************************************************************************)
(* The engines specification: CGRProcessor, TMProcessor, PTMProcessor and  *)
(* DPTMProcessor, registered by load_external_plugin and driven through    *)
(* the AnalysisService.                                                    *)
(***************************************************************************)
S1 == <<"A", "T", "C", "G", "A", "T", "C", "G">>
S3 == <<"T", "T", "T", "T", "T", "T", "T", "T">>

CGRConfigs ==
    {[kmer_length |-> k, construction_method |-> "nj"] : k \in 1..MaxKmer}
    \cup {[kmer_length |-> 2, construction_method |-> "UPGMA"],
          [kmer_length |-> 0, construction_method |-> "nj"],
          [kmer_length |-> 2, construction_method |-> "bad"],
          [kmer_length |-> 2],
          [construction_method |-> "nj"]}

CGRStrings == {<<>>, S1, S3}

TMConfigs ==
    {[partition |-> 1, construction_method |-> "nj"],
     [partition |-> 2, construction_method |-> "upgma"],
     [partition |-> 0, construction_method |-> "nj"],
     [partition |-> 1]}

TMStrings == {<<>>, <<"A">>, S1 \o <<"A", "T", "C", "G", "G">>}

PTMConfigs ==
    {[partition |-> 1, base_length |-> 2, construction_method |-> "nj"],
     [partition |-> 2, base_length |-> 1, construction_method |-> "upgma"],
     [partition |-> 1, base_length |-> 0, construction_method |-> "nj"],
     [partition |-> 1, base_length |-> 2]}

PTMStrings == {<<>>, <<"A">>, <<"A", "T", "C", "G", "A">>}

EngineDPTMConfigs == {With(DPTMParams(1, 50, 2), "construction_method", "nj")}

EngineDPTMStrings == {<<>>, <<"A", "T", "A">>, <<"T", "C", "A", "G">>}

EngineConfigs(p) ==
    CASE p = CGR  -> CGRConfigs
      [] p = TM   -> TMConfigs
      [] p = PTM  -> PTMConfigs
      [] p = DPTM -> EngineDPTMConfigs

EngineMaxBatch(p) == IF p = DPTM THEN DPTMMaxBatch ELSE MaxBatch

NextEngines ==
    \/ \E p \in {CGR, TM, PTM, DPTM} : register_processor(p)
    \/ \E p \in {CGR, TM, PTM, DPTM} :
          \E config \in EngineConfigs(p), n \in 0..EngineMaxBatch(p) :
             n_calls < EnginesMaxCalls /\ AnalyzeBegin(get_method_name(p), config, n)
    \/ ServiceSteps
    \/ ProcessSteps
    \/ \E s \in CGRStrings : CGRProcessSequence(s)
    \/ \E s \in TMStrings : TMProcessSequence(s)
    \/ \E s \in PTMStrings : PTMProcessSequence(s)
    \/ \E s \in EngineDPTMStrings : DPTMBeginSequence(s)
    \/ DPTMClassifyPart

SpecEngines == Init /\ [][NextEngines]_vars

(***************************************************************************)
(* The Template Matching specification: TemplateMatchingProcessor          *)
(* registered and driven through the AnalysisService.                      *)
(***************************************************************************)
TMPLParams(tl, thr, step) ==
    [template_length |-> tl, similarity_threshold |-> thr, sliding_window_step |-> step]

TMPLConfigs ==
    {With(TMPLParams(5, 80, 1), "min_matches_required", 1),
     With(With(TMPLParams(5, 80, 1), "min_matches_required", 1), "use_complement", FALSE),
     TMPLParams(5, 80, 1),
     With(TMPLParams(5, 100, 5), "min_matches_required", 1),
     TMPLParams(4, 80, 1),
     TMPLParams(5, 80, 6),
     [template_length |-> 5, similarity_threshold |-> 80]}

TMPLStrings ==
    {<<>>,
     <<"A", "A", "A", "A", "A">>,
     <<"A", "A", "A", "A", "A", "T">>,
     <<"a", "t", "a", "t", "a", "t">>}

NextTMPL ==
    \/ register_processor(TMPL)
    \/ \E config \in TMPLConfigs, n \in 0..MaxBatch :
          AnalyzeBegin(get_method_name(TMPL), config, n)
    \/ AnalyzeGetProcessor
    \/ AnalyzeValidate
    \/ AnalyzeProcess
    \/ AnalyzeFail
    \/ ProcessStart
    \/ \E s \in TMPLStrings : TMPLProcessSequence(s)
    \/ TMPLDistances
    \/ TMPLBuildTree

SpecTMPL == Init /\ [][NextTMPL]_vars

(***************************************************************************)
(* The part-wise specification: PTMProcessor and                           *)
(* PartWiseTemplateMatchingV2Processor, registered by load_external_plugin *)
(* and driven through the AnalysisService.                                 *)
(***************************************************************************)
PartWiseParams(method, tree) ==
    [partition |-> 1, base_length |-> 4, similarity_method |-> method,
     construction_method |-> tree]

SimilarityMethods == {"three_base", "four_base", "four_base_comp"}

PartWiseConfigs ==
    {PartWiseParams(m, "nj") : m \in SimilarityMethods}
    \cup {PartWiseParams("four_base_comp", "upgma"),
          With(PartWiseParams("three_base", "nj"), "tree_method", "upgma"),
          [partition |-> 1, base_length |-> 4, construction_method |-> "nj"],
          With(PartWiseParams("four_base", "nj"), "base_length", 0)}

PartWiseStrings ==
    {<<>>, <<"A", "A", "T", "C", "G", "A">>,
     <<"T", "A", "G", "C", "A", "T", "C", "G">>}

NextPartWise ==
    \/ \E p \in {PTM, PTMV2} : register_processor(p)
    \/ \E p \in {PTM, PTMV2}, config \in PartWiseConfigs, n \in 0..PartWiseMaxBatch :
          /\ n_calls < EnginesMaxCalls
          /\ AnalyzeBegin(get_method_name(p), config, n)
    \/ ServiceSteps
    \/ ProcessSteps
    \/ \E s \in PartWiseStrings : PTMProcessSequence(s)
    \/ \E s \in PartWiseStrings : PTMV2ProcessSequence(s)
    \/ PTMV2BuildTree

SpecPartWise == Init /\ [][NextPartWise]_vars

(***************************************************************************)
(* The loaded specification: the registry as load_all_plugins fills it,    *)
(* each processor run through the AnalysisService on its own default       *)
(* configuration.                                                          *)
(***************************************************************************)
LoadedStrings ==
    {S1,
     S1 \o S1 \o S1,
     S3 \o S3 \o S3}

NextLoaded ==
    \/ load_all_plugins
    \/ \E name \in DOMAIN processors, n \in 0..MaxBatch :
          /\ n_calls < EnginesMaxCalls
          /\ AnalyzeBegin(name, get_default_config(processors[name]), n)
    \/ AnalyzeGetProcessor
    \/ AnalyzeValidate
    \/ AnalyzeProcess
    \/ AnalyzeFail
    \/ ProcessStart
    \/ \E s \in LoadedStrings : TMPLProcessSequence(s)
    \/ TMPLDistances
    \/ TMPLBuildTree
    \/ FeaturesNotFollowed
    \/ ResultWithoutNewick

SpecLoaded == Init /\ [][NextLoaded]_vars

(***************************************************************************)
(* The registry specification: PluginRegistry called directly, with the    *)
(* processors of all the plugin classes; fn_call keeps the last call.      *)
(***************************************************************************)
ProcessorClasses == {DPTM, CGR, TM, PTM, PTMV1, PTMV2, TMPL, CGF}

LookupNames == {get_method_name(p) : p \in ProcessorClasses} \cup {"NonExistentMethod"}

\* the elements of a set as a list, in some order
RECURSIVE ListOf(_)
ListOf(set) ==
    IF set = {} THEN <<>>
    ELSE LET x == CHOOSE x \in set : TRUE
         IN  <<x>> \o ListOf(set \ {x})

\* self._processors.get(name)
get_processor_by_name(registry, name) ==
    IF name \in DOMAIN registry THEN registry[name] ELSE None

\* list(self._processors.keys())
get_processor_names(registry) == ListOf(DOMAIN registry)

\* list(self._processors.values())
get_processors(registry) ==
    [i \in 1..Cardinality(DOMAIN registry) |-> registry[ListOf(DOMAIN registry)[i]]]

Call_register_processor(p) ==
    /\ svc_pc = "idle"
    /\ processors' = RegistryWith(processors, p)
    /\ dict_mapping' = IF p = DPTM THEN DPTMInitCache ELSE dict_mapping
    /\ fn_call' = <<[fn |-> "register_processor", args |-> <<p>>, result |-> None]>>
    /\ UNCHANGED <<loaders, visualizers, svcVars, runVars>>

Call_get_processor_by_name(name) ==
    /\ fn_call' = <<[fn |-> "get_processor_by_name", args |-> <<name>>,
                     result |-> get_processor_by_name(processors, name)]>>
    /\ UNCHANGED <<processors, loaders, visualizers, dict_mapping, svcVars, runVars>>

Call_get_processor_names ==
    /\ fn_call' = <<[fn |-> "get_processor_names", args |-> <<>>,
                     result |-> get_processor_names(processors)]>>
    /\ UNCHANGED <<processors, loaders, visualizers, dict_mapping, svcVars, runVars>>

Call_get_processors ==
    /\ fn_call' = <<[fn |-> "get_processors", args |-> <<>>,
                     result |-> get_processors(processors)]>>
    /\ UNCHANGED <<processors, loaders, visualizers, dict_mapping, svcVars, runVars>>

NextRegistry ==
    \/ \E p \in ProcessorClasses : Call_register_processor(p)
    \/ \E name \in LookupNames : Call_get_processor_by_name(name)
    \/ Call_get_processor_names
    \/ Call_get_processors

SpecRegistry == Init /\ [][NextRegistry]_vars



(***************************************************************************)
(* The library specification: the functions of the plugins and of the      *)
(* first user interface's modules, called directly on arguments.  The      *)
(* last call, its arguments and what it returned are kept in fn_call.  A   *)
(* behaviour makes one call: the functions called here keep nothing        *)
(* between calls.                                                          *)
(***************************************************************************)
Bases == {"A", "T", "C", "G"}
Strings(n) == [1..n -> Bases]

Returns(fn, args, result) ==
    /\ fn_call = Nothing
    /\ fn_call' = <<[fn |-> fn, args |-> args, result |-> result]>>

\* PTMProcessor._four_base_comp_state(window, ideal prefix, base_length)
Call_four_base_comp_state(target, base_length) ==
    /\ Returns("_four_base_comp_state",
               <<target, generate_ideal_sequence(base_length), base_length>>,
               four_base_comp_state(target, generate_ideal_sequence(base_length),
                                    base_length))
    /\ UNCHANGED <<processors, loaders, visualizers, dict_mapping, svcVars, runVars>>

\* PTM_func.FourBaseWithCompState(window, ideal prefix, baseLength)
Call_FourBaseWithCompState(target, baseLength) ==
    /\ Returns("FourBaseWithCompState",
               <<target, Slice(PTM_func_ideal_sequence, 0, baseLength), baseLength>>,
               FourBaseWithCompState(target,
                                     Slice(PTM_func_ideal_sequence, 0, baseLength),
                                     baseLength))
    /\ UNCHANGED <<processors, loaders, visualizers, dict_mapping, svcVars, runVars>>

\* DPTMProcessor._generate_template(k)
Call_generate_template(k) ==
    /\ Returns("_generate_template", <<k>>, DPTM_generate_template(k))
    /\ UNCHANGED <<processors, loaders, visualizers, dict_mapping, svcVars, runVars>>

\* DPTM_func.template_generation(k)
Call_template_generation(k) ==
    /\ Returns("template_generation", <<k>>, template_generation(k))
    /\ UNCHANGED <<processors, loaders, visualizers, dict_mapping, svcVars, runVars>>

\* the template parts and sequence parts up to a length; a part the
\* window loop cuts is never empty
PartsUpTo(alphabet, n) == UNION {[1..m -> alphabet] : m \in 1..n}

MatchThresholds == {0, 50, 100}

\* DPTMProcessor._dynamic_match(ideal, seq, part_length, threshold_percent)
Call_dynamic_match_plugin(ideal, seq, part_length, threshold_percent) ==
    /\ Returns("_dynamic_match", <<ideal, seq, part_length, threshold_percent>>,
               DynamicMatch(ideal, seq, part_length, threshold_percent))
    /\ UNCHANGED <<processors, loaders, visualizers, dict_mapping, svcVars, runVars>>

\* DPTM_func.dynamic_match(ideal, seq, part_length, thresh_percent)
Call_dynamic_match(ideal, seq, part_length, thresh_percent) ==
    /\ Returns("dynamic_match", <<ideal, seq, part_length, thresh_percent>>,
               dynamic_match(ideal, seq, part_length, thresh_percent))
    /\ UNCHANGED <<processors, loaders, visualizers, dict_mapping, svcVars, runVars>>

\* TemplateMatchingProcessor._seq_diff(sequence, ideal_seq, partition), the
\* scores of the positions before they are binned
Call_seq_diff(sequence, ideal_seq) ==
    /\ Returns("_seq_diff", <<sequence, ideal_seq>>, TM_distances(sequence, ideal_seq))
    /\ UNCHANGED <<processors, loaders, visualizers, dict_mapping, svcVars, runVars>>

\* TM_func.SeqDiff(sequence, idealSeq, partition), the scores of the
\* positions before they are binned
Call_SeqDiff(sequence, idealSeq) ==
    /\ Returns("SeqDiff", <<sequence, idealSeq>>, SeqDiffDistances(sequence, idealSeq))
    /\ UNCHANGED <<processors, loaders, visualizers, dict_mapping, svcVars, runVars>>

\* the letters of a read: the four bases and the unknown base N
ReadLetters == Bases \cup {"N"}

\* CGRProcessor._cgr_k_mer(sequence)
Call_cgr_k_mer(kmerSeq) ==
    /\ Returns("_cgr_k_mer", <<kmerSeq>>, cgr_k_mer(kmerSeq))
    /\ UNCHANGED <<processors, loaders, visualizers, dict_mapping, svcVars, runVars>>

\* CGR_func.CGR_K_Mer(sequence)
Call_CGR_K_Mer(sequence) ==
    /\ Returns("CGR_K_Mer", <<sequence>>, CGR_K_Mer(sequence))
    /\ UNCHANGED <<processors, loaders, visualizers, dict_mapping, svcVars, runVars>>

\* CGRProcessor._cgr_image_kmer_count(sequence, kmer), flattened
Call_cgr_image_kmer_count(sequence, kmer) ==
    /\ Returns("_cgr_image_kmer_count", <<sequence, kmer>>,
               cgr_image_kmer_count(sequence, kmer))
    /\ UNCHANGED <<processors, loaders, visualizers, dict_mapping, svcVars, runVars>>

\* the score arrays of 0..MaxScored classification codes 0..3
ScoreArrays == UNION {[1..m -> 0..3] : m \in 0..MaxScored}

\* PTMProcessor._partition_features(distances, partition)
Call_partition_features(dists, partition) ==
    /\ Returns("_partition_features", <<dists, partition>>,
               partition_features(dists, partition))
    /\ UNCHANGED <<processors, loaders, visualizers, dict_mapping, svcVars, runVars>>

\* reads of one repeated base whose windows fill a 16-bit cell counter
LongReads == {SubSeq([x \in 1..n |-> "A"], 1, n) : n \in {UInt16 - 1, UInt16}}

\* the sequences of 0..n bases
StringsUpTo(n) == UNION {Strings(m) : m \in 0..n}

NextLibrary ==
    \/ fn_call = Nothing /\ \E sequence \in LongReads :
          Call_cgr_image_kmer_count(sequence, 1)
    \/ fn_call = Nothing /\ \E dists \in ScoreArrays, partition \in 1..MaxPartition :
          Call_partition_features(dists, partition)
    \/ fn_call = Nothing /\ \E kmerSeq \in PartsUpTo(ReadLetters, MaxCellK) : Call_cgr_k_mer(kmerSeq)
    \/ fn_call = Nothing /\ \E sequence \in PartsUpTo(ReadLetters, MaxCellK) : Call_CGR_K_Mer(sequence)
    \/ fn_call = Nothing /\ \E kmer \in 1..MaxCellK :
          \E sequence \in UNION {[1..m -> ReadLetters] : m \in 0..MaxScored} :
              Call_cgr_image_kmer_count(sequence, kmer)
    \/ fn_call = Nothing /\ \E sequence \in StringsUpTo(MaxScored) :
          \E ideal_seq \in PartsUpTo(Bases, MaxIdealLength) :
              Call_seq_diff(sequence, ideal_seq)
    \/ fn_call = Nothing /\ \E sequence \in StringsUpTo(MaxScored) :
          \E idealSeq \in PartsUpTo(Bases, MaxIdealLength) :
              Call_SeqDiff(sequence, idealSeq)
    \/ fn_call = Nothing /\ \E pl \in 1..MaxPartLength, thr \in MatchThresholds :
          \E ideal \in PartsUpTo({"A", "G"}, pl), seq \in PartsUpTo(Bases, pl) :
              Call_dynamic_match_plugin(ideal, seq, pl, thr)
    \/ fn_call = Nothing /\ \E pl \in 1..MaxPartLength, thr \in MatchThresholds :
          \E ideal \in PartsUpTo({"A", "G"}, pl), seq \in PartsUpTo(Bases, pl) :
              Call_dynamic_match(ideal, seq, pl, thr)
    \/ fn_call = Nothing /\ \E k \in 0..MaxTemplateK : Call_generate_template(k)
    \/ fn_call = Nothing /\ \E k \in 0..MaxTemplateK : Call_template_generation(k)
    \/ fn_call = Nothing /\ \E n \in 1..MaxBaseLength : \E target \in Strings(n) :
          Call_four_base_comp_state(target, n)
    \/ fn_call = Nothing /\ \E n \in 1..MaxBaseLength : \E target \in Strings(n) :
          Call_FourBaseWithCompState(target, n)

SpecLibrary == Init /\ [][NextLibrary]_vars



(***************************************************************************)
(*                              The claims                                 *)
(***************************************************************************)

\* C1: every classification code used in a DPTM run is the one
\* _dynamic_match computes for that (idealPart, seqPart) under the run's
\* own threshold_percent and part_length, whatever earlier runs on the same
\* registered DPTMProcessor instance did.
C1_CodeIsOfOwnConfig ==
    (svc_pc = "in_process" /\ last_match # Nothing) =>
        last_match[1].count = DynamicMatch(last_match[1].ideal, last_match[1].seq,
                                           svc_config["part_length"],
                                           svc_config["threshold_percent"])

\* C2: process_sequences is invoked only after the method name resolved to
\* a registered processor and that processor's validate_config returned
\* True; a call with an unknown method or a rejected configuration ends in
\* an error and never invokes process_sequences.
C2_ProcessOnlyAfterValidation ==
    /\ run_pc # "none" =>
          /\ svc_method \in DOMAIN processors
          /\ svc_processor = processors[svc_method]
          /\ svc_valid = "True"
          /\ validate_config(svc_processor, svc_config) = "True"
    /\ (svc_pc = "idle" /\ n_calls > 0 /\ svc_processor = None) =>
          /\ svc_outcome = "ValueError: Unknown analysis method"
          /\ run_pc = "none"
    /\ (svc_pc = "idle" /\ svc_valid \notin {None, "True"}) =>
          /\ svc_outcome \in {"ValueError: Invalid configuration", "KeyError"}
          /\ run_pc = "none"

\* a call went through validation into process_sequences and returned, and
\* an earlier state of the model rejected nothing by accident: the run is
\* of a registered processor with an accepted configuration
C2_Witness ==
    /\ run_pc = "returned"
    /\ svc_valid = "True"
    /\ svc_outcome = "returned"
    /\ current_result = n_calls

\* C3: process_sequences on a batch of exactly one sequence raises before
\* any distance matrix or tree is computed and never returns a result.
C3_SingleSequenceRaises ==
    svc_nseq = 1 => (distances = Nothing /\ tree_built = None /\ run_pc # "returned")

\* C4: for a batch of N >= 2 sequences the distance matrix is N x N with
\* N = len(sequence_names), the names are the input names in input order,
\* entry [i][j] is the distance of the descriptors of inputs i and j, the
\* matrix is symmetric and its diagonal is 0.
C4_DistanceMatrixWellFormed ==
    (svc_nseq >= 2 /\ distances # Nothing) =>
        LET N == Len(sequence_names)
        IN  /\ N = svc_nseq
            /\ Len(svc_sequences) = N
            /\ Len(descriptors) = N
            /\ \A i \in 1..N : sequence_names[i] = svc_sequences[i].name
            /\ Len(distances) = N
            /\ \A i \in 1..N : Len(distances[i]) = N
            /\ \A i, j \in 1..N : distances[i][j] = distances[j][i]
            /\ \A i \in 1..N : distances[i][i] = 0
            /\ \A i, j \in 1..N :
                  i # j => distances[i][j] = SqEuclidean(descriptors[i], descriptors[j])

\* a run on three sequences returned a matrix with a non-zero entry
C4_Witness ==
    /\ run_pc = "returned"
    /\ svc_nseq = 3
    /\ \E i, j \in 1..3 : distances[i][j] > 0

\* C5: within one run every sequence's descriptor has the same length,
\* whatever the length or content of the sequence.
C5_DescriptorLengthFixed ==
    \A i, j \in DOMAIN descriptors : Len(descriptors[i]) = Len(descriptors[j])

\* The window a sequence must fill: kmer_length for CGR, base_length for
\* PTM, the ideal / template length for TM and DPTM
EngineWindow ==
    CASE svc_processor = CGR  -> svc_config["kmer_length"]
      [] svc_processor = PTM  -> svc_config["base_length"]
      [] svc_processor = TM   -> TMIdealLength
      [] svc_processor = DPTM -> Len(DPTMTemplate)

\* C6: a sequence that is empty or shorter than the engine's window gets an
\* all-zero descriptor and raises nothing: once the loop has read it, its
\* descriptor is there and is all zero.
C6_ShortSequenceZeroDescriptor ==
    \A i \in DOMAIN svc_sequences :
        Len(svc_sequences[i].sequence) < EngineWindow =>
            /\ i \in DOMAIN descriptors
            /\ \A x \in DOMAIN descriptors[i] : descriptors[i][x] = 0

\* C7: the CGR descriptor of every sequence, of any length, has exactly
\* 4^kmer_length entries.
C7_CGRDescriptorLength ==
    svc_processor = CGR =>
        \A i \in DOMAIN descriptors :
            Len(descriptors[i]) = Pow(4, svc_config["kmer_length"])

\* CGR with kmer_length 2 has made the descriptor of a sequence shorter
\* than 2 and of one longer than 2
C7_Witness ==
    /\ svc_processor = CGR
    /\ svc_valid = "True"
    /\ svc_config["kmer_length"] = 2
    /\ \E i, j \in DOMAIN descriptors :
          /\ Len(svc_sequences[i].sequence) < 2
          /\ Len(svc_sequences[j].sequence) > 2

\* C8: CGR with kmer_length 2 on S1 = S2 = "ATCGATCG", S3 = "TTTTTTTT"
\* gives three descriptors of length 16 with distance(S1, S2) = 0 and
\* distance(S1, S3) > 0; and in any CGR run two sequences with equal bases
\* get equal descriptors and distance 0.
C8_Scenario ==
    /\ svc_processor = CGR
    /\ svc_valid = "True"
    /\ svc_config["kmer_length"] = 2
    /\ Len(svc_sequences) = 3
    /\ svc_sequences[1].sequence = S1
    /\ svc_sequences[2].sequence = S1
    /\ svc_sequences[3].sequence = S3
    /\ distances # Nothing

C8_CGRScenarioAndEqualSequences ==
    /\ C8_Scenario =>
          /\ \A i \in 1..3 : Len(descriptors[i]) = 16
          /\ distances[1][2] = 0
          /\ distances[1][3] > 0
    /\ (svc_processor = CGR /\ distances # Nothing) =>
          \A i, j \in DOMAIN descriptors :
              svc_sequences[i].sequence = svc_sequences[j].sequence =>
                  /\ descriptors[i] = descriptors[j]
                  /\ distances[i][j] = 0

\* the run of the scenario returned its result
C8_Witness == C8_Scenario /\ run_pc = "returned" /\ svc_outcome = "returned"

\* C9: within one DPTM run the same (idealPart, seqPart) pair always gets
\* the same code; its first occurrence in the run computes and stores the
\* code, every later occurrence returns the stored code without
\* recomputing, and the stored entry stays as written.
C9_FirstComputesLaterReuse ==
    (svc_pc = "in_process" /\ last_match # Nothing) =>
        /\ last_match[1].count = run_seen[<<last_match[1].ideal, last_match[1].seq>>]
        /\ last_match[1].first <=> last_match[1].computed
        /\ dict_mapping[last_match[1].ideal \o last_match[1].seq] = last_match[1].count

\* C10: no configuration DPTMProcessor.validate_config accepts makes
\* process_sequences fail because of a configuration parameter.
ConfigurationErrors ==
    {"KeyError", "ZeroDivisionError", "ValueError: bins must be positive"}

C10_AcceptedConfigNeverFails ==
    (svc_processor = DPTM /\ svc_valid = "True") => run_error \notin ConfigurationErrors


\* C11: a part-wise run scores every window with the classifier its
\* configuration names: the descriptor of every sequence read so far is the
\* one the similarity_method of the configuration gives (three_base the raw
\* count, four_base the 0..3 bucket, four_base_comp the direct/complement
\* rule).
C11_ClassifierOfConfig ==
    (/\ svc_processor \in {PTM, PTMV2}
     /\ svc_valid = "True"
     /\ Has(svc_config, "similarity_method")
     /\ svc_config["similarity_method"] \in SimilarityMethods) =>
        \A i \in DOMAIN descriptors :
            descriptors[i] =
                PTMV2_seq_diff(svc_config["similarity_method"],
                               svc_sequences[i].sequence,
                               generate_ideal_sequence(svc_config["base_length"]),
                               svc_config["partition"], svc_config["base_length"])


ComplementPairs == {<<"A", "T">>, <<"T", "A">>, <<"C", "G">>, <<"G", "C">>}

\* the code the four_base_comp rule gives for a window and an ideal prefix
\* of the same length n
FourBaseCompRule(window, ideal, n) ==
    LET direct == Cardinality({x \in 1..n : window[x] = ideal[x]})
        compl  == Cardinality({x \in 1..n : <<window[x], ideal[x]>> \in ComplementPairs})
    IN  IF direct = n THEN 3
        ELSE IF compl = n THEN 2
        ELSE IF direct >= 2 \/ compl >= 2 THEN 1
        ELSE 0

\* C12: the four_base_comp classifier, called on a window and the ideal
\* prefix of the same length base_length, returns 3 if the direct matches
\* are base_length, else 2 if the complement matches are base_length, else
\* 1 if either count is at least 2, else 0; the exact complement of the
\* ideal prefix gets 2.
C12_FourBaseCompRule ==
    (/\ Len(fn_call) = 1
     /\ fn_call[1].fn \in {"_four_base_comp_state", "FourBaseWithCompState"}) =>
        LET window == fn_call[1].args[1]
            ideal  == fn_call[1].args[2]
            n      == fn_call[1].args[3]
        IN  /\ fn_call[1].result = FourBaseCompRule(window, ideal, n)
            /\ (\A x \in 1..n : <<window[x], ideal[x]>> \in ComplementPairs)
                  => fn_call[1].result = 2


\* C13: for every engine the tree in the result is the one built by the
\* constructor method construction_method names, whatever its case: upgma()
\* for "upgma", nj() for "nj".
C13_TreeByNamedMethod ==
    (/\ run_pc = "returned"
     /\ Has(svc_config, "construction_method")
     /\ Lower(svc_config["construction_method"]) \in {"nj", "upgma"}) =>
        tree_built = Lower(svc_config["construction_method"])


\* the string of i copies of 'A' then i copies of 'G', for i = 1..k in order
TemplateRule(k) ==
    [x \in 1..(k * (k + 1)) |->
        LET i == CHOOSE i \in 1..k : (i - 1) * i < x /\ x <= i * (i + 1)
        IN  IF x - (i - 1) * i <= i THEN "A" ELSE "G"]

\* C14: the DPTM template generator, for every k >= 1, returns i copies of
\* 'A' then i copies of 'G' for i = 1..k in order, a string of length
\* k(k+1) over {A, G}; the same k gives the same string, and the plugin's
\* _generate_template and template_generation of DPTM_func return the same
\* string.
C14_TemplateGenerator ==
    (/\ Len(fn_call) = 1
     /\ fn_call[1].fn \in {"_generate_template", "template_generation"}
     /\ fn_call[1].args[1] >= 1) =>
        LET k == fn_call[1].args[1]
            result == fn_call[1].result
        IN  /\ result = TemplateRule(k)
            /\ Len(result) = k * (k + 1)
            /\ Len(result) = SumSeq([i \in 1..(k + 1) |-> 2 * (i - 1)])
            /\ \A x \in DOMAIN result : result[x] \in {"A", "G"}
            /\ result = DPTM_generate_template(k)
            /\ result = template_generation(k)

\* template_generation has been called with k = 3 and returned AGAAGGAAAGGG,
\* the string of _generate_template(3)
C14_Witness ==
    /\ Len(fn_call) = 1
    /\ fn_call[1].fn = "template_generation"
    /\ fn_call[1].args[1] = 3
    /\ fn_call[1].result = DPTM_generate_template(3)
    /\ Len(fn_call[1].result) = 12


\* C15: after load_all_plugins every processor of the registry, given at
\* least two sequences and its own default configuration, passes its own
\* validate_config, raises nothing in process_sequences (no missing
\* configuration key, no AnalysisResult field left unset) and returns an
\* N x N distance matrix.
C15_LoadedProcessorsRunOnDefaults ==
    (/\ svc_processor # None
     /\ svc_nseq >= 2
     /\ svc_config = get_default_config(svc_processor)) =>
        /\ svc_valid \in {None, "True"}
        /\ run_pc # "raised"
        /\ run_pc = "returned" =>
              /\ Len(distances) = svc_nseq
              /\ \A a \in DOMAIN distances : Len(distances[a]) = svc_nseq


\* the registry answers of C16 in one state: the processor just registered
\* is the one its name gives, a lookup returns None exactly for a name not
\* in the registry, and the two lists have one entry per name
C16_RegistryAnswers ==
    Len(fn_call) = 1 =>
        LET call == fn_call[1]
        IN  /\ call.fn = "register_processor" =>
                  /\ get_method_name(call.args[1]) \in DOMAIN processors
                  /\ processors[get_method_name(call.args[1])] = call.args[1]
            /\ call.fn = "get_processor_by_name" =>
                  /\ call.result = None <=> call.args[1] \notin DOMAIN processors
                  /\ call.args[1] \in DOMAIN processors =>
                        call.result = processors[call.args[1]]
            /\ call.fn = "get_processor_names" =>
                  /\ Len(call.result) = Cardinality(DOMAIN processors)
                  /\ {call.result[i] : i \in DOMAIN call.result} = DOMAIN processors
            /\ call.fn = "get_processors" =>
                  /\ Len(call.result) = Cardinality(DOMAIN processors)
                  /\ {call.result[i] : i \in DOMAIN call.result}
                        = {processors[n] : n \in DOMAIN processors}
                  /\ \A i, j \in DOMAIN call.result :
                        get_method_name(call.result[i]) = get_method_name(call.result[j])
                            => i = j

\* a step of the registry: a name once registered stays, and the processor
\* under a name changes only in a register_processor call with that name
C16_RegistryStep ==
    /\ DOMAIN processors \subseteq DOMAIN processors'
    /\ \A n \in DOMAIN processors' :
          (n \notin DOMAIN processors \/ processors'[n] # processors[n]) =>
              /\ Len(fn_call') = 1
              /\ fn_call'[1].fn = "register_processor"
              /\ get_method_name(fn_call'[1].args[1]) = n

\* C16: after any sequence of register_processor calls,
\* get_processor_by_name(n) is None exactly when no processor named n was
\* ever registered and otherwise is the processor most recently registered
\* under n; get_processor_names and get_processors hold one entry per
\* distinct method name, so an earlier processor of the same name is no
\* longer reachable.
C16_RegistryLookup == [](C16_RegistryAnswers) /\ [][C16_RegistryStep]_vars

\* with all six names registered, TemplateMatchingProcessor has just been
\* registered under "Template Matching", the name TMProcessor also has
C16_Witness ==
    /\ Len(fn_call) = 1
    /\ fn_call[1].fn = "register_processor"
    /\ fn_call[1].args[1] = TMPL
    /\ Cardinality(DOMAIN processors) = 6
    /\ TM \notin {processors[n] : n \in DOMAIN processors}


\* the feature number the rule of C17 gives the window at start i (0-based)
\* of a sequence: the code of sub-part p, as classified in this run, in the
\* bits 2p and 2p + 1
FeatureNumberRule(sequence, i) ==
    LET part_length == svc_config["part_length"]
        t == Len(DPTMTemplate)
        parts == (t + part_length - 1) \div part_length
        code(p) == run_seen[<<Slice(DPTMTemplate, p * part_length,
                                    (p + 1) * part_length),
                              Slice(sequence, i + p * part_length,
                                    i + (p + 1) * part_length)>>]
    IN  SumSeq([q \in 1..parts |-> code(q - 1) * Pow(4, q - 1)])

\* C17: in the DPTM per-window aggregation the p-th sub-part of a window
\* writes its code into the bits 2p and 2p + 1 of the feature number, so
\* the feature number of every window is the sum of code_p * 4^p.
C17_FeatureNumberBits ==
    (svc_processor = DPTM /\ svc_pc = "in_process" /\ Len(svc_sequences) > 0) =>
        \A x \in DOMAIN feature :
            feature[x] =
                FeatureNumberRule(svc_sequences[Len(svc_sequences)].sequence, x - 1)


\* the code the rule of C18 gives a pair of parts of length part_length
DynamicMatchRule(ideal, seq, part_length, threshold) ==
    LET dc == Cardinality({x \in 1..part_length : ideal[x] = seq[x]})
        cc == Cardinality({x \in 1..part_length :
                              <<seq[x], ideal[x]>> \in ComplementPairs})
    IN  IF 100 * dc >= threshold * part_length THEN 3
        ELSE IF 100 * cc >= threshold * part_length THEN 2
        ELSE IF 100 * (dc + cc) >= threshold * part_length THEN 1
        ELSE 0

\* C18: the DPTM match of (idealPart, seqPart) returns 3 if the direct
\* matches reach the threshold, else 2 if the complement matches do, else 1
\* if both together do, else 0, the earliest condition winning; and
\* _dynamic_match of the plugin and dynamic_match of DPTM_func return the
\* same code for every pair, a trailing pair shorter than part_length
\* included.
C18_DynamicMatchRule ==
    (Len(fn_call) = 1 /\ fn_call[1].fn \in {"_dynamic_match", "dynamic_match"}) =>
        LET ideal == fn_call[1].args[1]
            seq == fn_call[1].args[2]
            part_length == fn_call[1].args[3]
            threshold == fn_call[1].args[4]
        IN  /\ (Len(ideal) = part_length /\ Len(seq) = part_length) =>
                  fn_call[1].result = DynamicMatchRule(ideal, seq, part_length, threshold)
            /\ fn_call[1].result = DynamicMatch(ideal, seq, part_length, threshold)
            /\ fn_call[1].result = dynamic_match(ideal, seq, part_length, threshold)


\* C19: for a sequence of length n and a template of length t with n >= t
\* the DPTM feature extraction returns one feature number per window start
\* 0..n-t, that is n - t + 1 numbers; a sequence of length t yields one.
C19_OneNumberPerWindowStart ==
    (/\ svc_processor = DPTM /\ svc_pc = "in_process"
     /\ run_pc \in {"loop", "tree", "returned"}
     /\ Len(svc_sequences) > 0) =>
        LET n == Len(svc_sequences[Len(svc_sequences)].sequence)
            t == Len(DPTMTemplate)
        IN  n >= t => Len(feature) = n - t + 1


\* the score the rule of C20 gives position i (0-based): the code of every
\* offset j inside the sequence, shifted left by 2 * j bits
TMScoreRule(sequence, ideal, i) ==
    LET n == Len(sequence)
        L == Len(ideal)
    IN  SumSeq([x \in 1..L |->
                   IF i + L - (x - 1) <= n
                   THEN SeqDiffCode(ideal[L - (x - 1)], sequence[i + L - (x - 1)])
                        * Pow(4, x - 1)
                   ELSE 0])

\* C20: for every position i of the sequence the TM score is the sum, over
\* the offsets j in 0..L-1 with i + L - j <= n, of
\* code(ideal[L-1-j], seq[i+L-1-j]) shifted left by 2 * j bits, the offsets
\* outside the sequence being skipped, and the score lies in 0..2^(2L)-1.
C20_TMScore ==
    (Len(fn_call) = 1 /\ fn_call[1].fn \in {"SeqDiff", "_seq_diff"}) =>
        LET sequence == fn_call[1].args[1]
            ideal == fn_call[1].args[2]
            scores == fn_call[1].result
        IN  /\ Len(scores) = Len(sequence)
            /\ \A x \in DOMAIN scores :
                  /\ scores[x] = TMScoreRule(sequence, ideal, x - 1)
                  /\ scores[x] \in 0..(Pow(2, 2 * Len(ideal)) - 1)


\* the number of scores of a sequence: one per position in TM, one per
\* window of base_length bases in PTM
ScoreCount(sequence) ==
    IF svc_processor = TM THEN Len(sequence)
    ELSE Len(sequence) - svc_config["base_length"] + 1

\* C21: in TM and PTM the partition segments of the score array are
\* contiguous, disjoint and cover the whole array (the last one takes the
\* remainder), so every score is counted in exactly one partition histogram
\* and the entries of a descriptor sum to the number of scores.
C21_PartitionsCoverScores ==
    (svc_processor \in {TM, PTM} /\ svc_pc = "in_process") =>
        \A k \in DOMAIN descriptors :
            SumSeq(descriptors[k]) = ScoreCount(svc_sequences[k].sequence)


\* C22: the matrix handed to the tree constructor has, for every row i of
\* the N rows, exactly the entries D[i][0..i] of the distance matrix in
\* column order; the slicing form of CGR/TM/PTM and the deletion form of
\* DPTM give the same rows; and the square distance matrix of the result is
\* left as pairwise_distances computed it.
C22_LowerTriangularRows ==
    (/\ svc_processor \in {DPTM, CGR, TM, PTM}
     /\ svc_pc = "in_process" /\ run_pc = "returned") =>
        LET N == Len(sequence_names)
        IN  /\ Len(dist_matrix) = N
            /\ \A a \in 1..N :
                  /\ Len(dist_matrix[a]) = a
                  /\ \A b \in 1..a : dist_matrix[a][b] = distances[a][b]
            /\ lower_triangular_rows(distances) = dist_matrix
            /\ to_lower_triangular_del(distances) = dist_matrix
            /\ distances = pairwise_distances(descriptors)
            /\ \A a \in 1..N : Len(distances[a]) = N

\* a DPTM run handed the constructor two rows with a positive distance
C22_Witness ==
    /\ svc_processor = DPTM /\ svc_pc = "in_process" /\ run_pc = "returned"
    /\ Len(dist_matrix) = 2
    /\ dist_matrix[2][1] > 0


\* C23: for a fixed k the CGR coordinate function maps distinct k-mers over
\* {A,C,G,T} to distinct cells of the 2^k x 2^k matrix, so that each
\* descriptor entry counts the occurrences of exactly one k-mer.
C23_DistinctKmersDistinctCells ==
    (/\ Len(fn_call) = 1 /\ fn_call[1].fn \in {"_cgr_k_mer", "CGR_K_Mer"}
     /\ fn_call[1].args[1] \in Strings(Len(fn_call[1].args[1]))) =>
        LET kmerSeq == fn_call[1].args[1]
        IN  \A other \in Strings(Len(kmerSeq)) :
                other # kmerSeq =>
                    /\ cgr_k_mer(other) # fn_call[1].result
                    /\ CGR_K_Mer(other) # fn_call[1].result


\* C24: for a sequence of length n over {A,C,G,T,N} and k >= 1 every one of
\* the max(0, n - k + 1) sliding windows performs exactly one cell
\* increment: the coordinates of _cgr_k_mer satisfy 0 <= x < 2^k and
\* 0 <= y < 2^k, so the bounds check discards no window.  The cells are
\* 16-bit counters, so the increments are counted modulo 2^16.
C24_EveryWindowCounted ==
    (Len(fn_call) = 1 /\ fn_call[1].fn = "_cgr_image_kmer_count") =>
        LET sequence == fn_call[1].args[1]
            kmer == fn_call[1].args[2]
            n == Len(sequence)
            windows == IF n - kmer + 1 > 0 THEN n - kmer + 1 ELSE 0
        IN  /\ SumSeq(fn_call[1].result) % UInt16 = windows % UInt16
            /\ \A i \in 0..(windows - 1) :
                  LET l == cgr_k_mer(Slice(sequence, i, i + kmer))
                  IN  /\ 0 <= l[1] /\ l[1] < Pow(2, kmer)
                      /\ 0 <= l[2] /\ l[2] < Pow(2, kmer)

\* a sequence with an N and two windows of two letters
C24_Witness ==
    /\ Len(fn_call) = 1 /\ fn_call[1].fn = "_cgr_image_kmer_count"
    /\ fn_call[1].args = <<<<"T", "N", "T">>, 2>>
    /\ SumSeq(fn_call[1].result) = 2


\* the bin (1-based) in which np.histogram counts the score v when v is the
\* only score of its array
BinAlone(v, bins) == CHOOSE b \in 1..bins : Histogram(<<v>>, bins)[b] = 1

\* C25: in the plugin histograms the bin in which a score value v is
\* counted depends only on v and the configuration, not on the other scores
\* of the same sequence or partition: every score of a partition is counted
\* in the bin that counts it when it is the only score.
C25_BinOfScoreIsFixed ==
    (Len(fn_call) = 1 /\ fn_call[1].fn = "_partition_features") =>
        LET dists == fn_call[1].args[1]
            partition == fn_call[1].args[2]
            partition_size == Len(dists) \div partition
            segment(q) == Slice(dists, q * partition_size,
                                Min((q + 1) * partition_size, Len(dists)))
        IN  \A q \in 0..(partition - 1) : \A x \in DOMAIN segment(q) :
                fn_call[1].result[q * PTMBins + BinAlone(segment(q)[x], PTMBins)]
                    >= Cardinality({y \in DOMAIN segment(q) :
                                       segment(q)[y] = segment(q)[x]})


\* the number of windows of the sequence whose k-mer maps to entry e of the
\* flattened image
WindowsOfCell(sequence, kmer, e) ==
    Cardinality({i \in 0..(Len(sequence) - kmer) :
        LET l == cgr_k_mer(Slice(sequence, i, i + kmer))
        IN  l[2] * Pow(2, kmer) + l[1] = e - 1})

\* C26: each CGR occupancy cell holds the exact number of windows mapped to
\* it for a sequence of any length: the 16-bit cell counter never wraps
\* around.
C26_CellCountExact ==
    (Len(fn_call) = 1 /\ fn_call[1].fn = "_cgr_image_kmer_count") =>
        \A e \in DOMAIN fn_call[1].result :
            fn_call[1].result[e] =
                WindowsOfCell(fn_call[1].args[1], fn_call[1].args[2], e)


\* C27: within one DPTM run the cache key idealPart + seqPart identifies the
\* pair: two different pairs of the run never produce the same key, the
\* trailing sub-part shorter than part_length included, and no pair of the
\* run has the pre-seeded key "aa".
C27_KeyIdentifiesPair ==
    (svc_processor = DPTM /\ svc_pc = "in_process") =>
        /\ \A p, q \in DOMAIN run_seen :
              p # q => DPTMCacheKey(p[1], p[2]) # DPTMCacheKey(q[1], q[2])
        /\ \A p \in DOMAIN run_seen :
              DPTMCacheKey(p[1], p[2]) \notin DOMAIN DPTMInitCache

\* a run that has classified a trailing ideal part shorter than part_length
\* and a full one, and a sequence part of lower-case letters
C27_Witness ==
    /\ svc_processor = DPTM /\ svc_pc = "in_process"
    /\ \E p, q \in DOMAIN run_seen :
          /\ Len(p[1]) < svc_config["part_length"]
          /\ Len(q[1]) = svc_config["part_length"]
          /\ Len(p[2]) > Len(p[1])
    /\ \E p \in DOMAIN run_seen : \E x \in DOMAIN p[2] : p[2][x] = "a"


\* the stored result is that of a call already made, and after a call that
\* succeeded it is the result of that call
C28_StoredResult ==
    /\ current_result \in 0..n_calls
    /\ (svc_pc = "idle" /\ svc_outcome = "returned") => current_result = n_calls

\* the stored result changes only in the step that ends a call with success
C28_StoredResultStep ==
    current_result' # current_result =>
        /\ svc_pc = "in_process" /\ run_pc = "returned"
        /\ svc_pc' = "idle" /\ svc_outcome' = "returned"
        /\ current_result' = n_calls

\* C28: get_current_result always returns the result of the most recent
\* analyze_sequences call that succeeded (None before the first success); a
\* call that fails, by an unknown method, a rejected configuration or an
\* exception inside process_sequences, leaves the stored result unchanged.
C28_CurrentResultIsLastSuccess == [](C28_StoredResult) /\ [][C28_StoredResultStep]_vars

\* the second call failed inside process_sequences after the first succeeded
C28_Witness ==
    /\ svc_pc = "idle" /\ n_calls = 2
    /\ svc_outcome = "Exception: Analysis failed"
    /\ current_result = 1


\* C29: calling load_all_plugins again on the shared registry leaves it with
\* the same processors, loaders and visualizers as after the first call: no
\* processor name, loader or visualizer is present more than once.
C29_LoadingIsIdempotent ==
    /\ \A a, b \in DOMAIN loaders : a # b => loaders[a] # loaders[b]
    /\ \A a, b \in DOMAIN visualizers : a # b => visualizers[a] # visualizers[b]
    /\ \A a, b \in DOMAIN get_processor_names(processors) :
          a # b => get_processor_names(processors)[a] # get_processor_names(processors)[b]


\* the progress values of the call so far, in tenths: in 0..10, in
\* non-decreasing order, 0 first, 2 only once the processor was found and
\* the configuration validated, 10 only once process_sequences returned
ProgressInOrder ==
    /\ \A x \in DOMAIN cb_progress : cb_progress[x] \in 0..10
    /\ \A x, y \in DOMAIN cb_progress : x <= y => cb_progress[x] <= cb_progress[y]
    /\ cb_progress # <<>> => cb_progress[1] = 0
    /\ (\E x \in DOMAIN cb_progress : cb_progress[x] = 2) =>
          (svc_processor # None /\ svc_valid = "True")
    /\ (\E x \in DOMAIN cb_progress : cb_progress[x] = 10) =>
          (svc_outcome = "returned" /\ run_pc = "returned")

\* the call has ended by raising
CallRaised == svc_pc = "idle" /\ svc_outcome \notin {None, "returned"}

\* C30: during analyze_sequences with a progress callback, update_progress
\* is called only with values in 0.0..1.0 and in non-decreasing order, 0.0
\* first, 0.2 only after the processor was found and the configuration
\* validated, 1.0 only after process_sequences returned; 1.0 is never
\* reported for a call that raises, and every call that raises after the
\* callback was first used sets a failure status on the callback.
C30_ProgressReports ==
    /\ ProgressInOrder
    /\ CallRaised =>
          /\ \A x \in DOMAIN cb_progress : cb_progress[x] # 10
          /\ cb_status = "Analysis failed"

====
